---- MODULE Spec2Model ----
(***************************************************************************)
(* Job execution runtime of lima-content (src/src/runtime): the StepRunner *)
(* driving a batch of jobs over a ThreadPoolExecutor, the retry wrapper    *)
(* around StepRunner._execute_job, the Progress counters, the attempt      *)
(* counter map and the cooperative shutdown flag; the token-bucket        *)
(* RateLimiter.                                                            *)
(*                                                                         *)
(* Domain of the model: callbacks (process(), hooks) either return or      *)
(* raise a subclass of Exception; delays are non-negative durations;       *)
(* acquire is called with a positive finite weight whose wait_time is a    *)
(* duration time.sleep accepts.                                            *)
(***************************************************************************)
EXTENDS Integers, Sequences, FiniteSets, TLC

(* ---- bounds of the model ---- *)
MaxJobs == 2
MaxThreads == 2
MaxAttempts == 2
MaxKeys == 2
RetryMaxAttempts == 4
MaxDelays == 2
MaxBuckets == 2
MaxCallers == 2
MaxCalls == 2
MaxSeqCalls == 5
MaxCapacity == 2
MaxRate == 2
MaxWeight == 3
MaxTime == 3
MaxSeqTime == 8
MaxMade == 3
MaxTotal == 3
MaxHooks == 3
MaxHookFns == 2
MaxReruns == 1
MaxItems == 3

(* delay values offered to the retry-only specification *)
DelayValues == {1, 2, 5, 10}

VARIABLES
    cfg,          \* Config: threads, retry.attempts, retry.delays_sec
    job_list,     \* the jobs handed to run(): sequence of entity keys
    shutdown,     \* StepRunner._shutdown_requested
    progress,     \* Progress counters
    counters,     \* StepRunner._attempt_counters (0 = key absent)
    mainpc,       \* position of the thread that calls run()
    pc,           \* per job: position of its worker in _process_job
    attempt,      \* per job: loop variable of retry.wrapper
    local,        \* per job: local `attempt` of _execute_job
    exc,          \* per job: exception in flight / last_error
    future,       \* per job: outcome stored in its Future
    chk,          \* per job: what the shutdown check observed
    calls,        \* per job: number of calls of _execute_job by the wrapper
    outcome,      \* per job: how the retry-wrapped call ended
    stamps,       \* per job: values written to payload["_attempt"]
    sleeps,       \* per job: delays slept by the wrapper
    marks,        \* per job: Progress.mark_* calls made for it
    hookruns,     \* per job: number of run_before/run_after/run_error calls
    buckets,      \* RateLimiter._buckets: name -> _Bucket
    clock,        \* time.monotonic(), in ticks
    acq,          \* per caller of RateLimiter.acquire: its position and locals
    key_fields,   \* the key_fields a step passes to make_job
    made,         \* the jobs made so far, in order: the batch of the step
    uuids,        \* number of uuid4() values drawn
    deduped,      \* the result of deduplicate_jobs(made), once called
    snap,         \* the last ProgressSnapshot taken
    inflight,     \* number of threads between begin_job and their mark_*
    registry,     \* HookRegistry: kind -> list of registered callbacks
    hookcall,     \* the run_before / run_after / run_error call under way
    reruns,       \* per later run() call on the runner: the flag and the count it found
    ranged        \* a call of filter_by_range: its arguments and its result

runner_vars == <<cfg, job_list, shutdown, progress, counters, mainpc, pc, attempt,
                 local, exc, future, chk, calls, outcome, stamps, sleeps, marks,
                 hookruns>>
limiter_vars == <<buckets, clock, acq>>
(* the state of the runtime's helpers that the runner's own steps leave alone *)
jobs_vars == <<key_fields, made, uuids, deduped>>
tracker_vars == <<snap, inflight>>
hooks_vars == <<registry, hookcall>>
session_vars == <<reruns>>
range_vars == <<ranged>>
library_vars == <<limiter_vars, jobs_vars, tracker_vars, hooks_vars, session_vars, range_vars>>
vars == <<runner_vars, library_vars>>

Max(a, b) == IF a >= b THEN a ELSE b
Min(a, b) == IF a <= b THEN a ELSE b

Jobs == 1..Len(job_list)
Keys == 1..MaxKeys

(* ---- errors (runtime/errors.py) ---- *)
NoError == [type |-> "None", cause |-> "None", src |-> "none", at |-> 0]
Raised(type, src, at) == [type |-> type, cause |-> "None", src |-> src, at |-> at]
(* the wrapped call returned normally *)
Returned == [type |-> "Returned", cause |-> "None", src |-> "none", at |-> 0]
FatalStepError == "Fatal"
RetryableStepError == "Retryable"
JobRetryExceededError == "RetryExceeded"
(* what a callback (process or a hook) can raise *)
RaiseKinds == {FatalStepError, RetryableStepError, "Other"}
(* `except Exception` of run(): every modelled error type derives from Exception *)
(* a Future: pending, or holding the return or the exception of the call *)
(* the exception is kept by its type and by whether an error hook raised it *)
FuturePending == [state |-> "pending", type |-> "None", hook |-> FALSE]
FutureReturned == [state |-> "returned", type |-> "None", hook |-> FALSE]
FutureRaised(e) == [state |-> "raised", type |-> e.type, hook |-> e.src = "error_hook"]
(* variant: the except clause names PipelineError instead of Exception *)
IsException_pipeline_only(type) ==
    type \in {FatalStepError, RetryableStepError, JobRetryExceededError}
IsException(type) == type \in {FatalStepError, RetryableStepError, JobRetryExceededError,
                               "Other", "IndexError"}

(* ---- Progress (runtime/progress.py) ---- *)
(* _start_ts before start() is called *)
NoTime == -1
(* variant: start() sets the total and the start time only *)
start_keeps_counts(p, total) == [p EXCEPT !.total = total, !.start_ts = clock]
start(p, total) ==
    [total |-> total, completed |-> 0, failed |-> 0, skipped |-> 0, in_progress |-> 0,
     start_ts |-> clock]
begin_job(p) == [p EXCEPT !.in_progress = @ + 1]
(* variant: the completed counter is not incremented *)
mark_completed_uncounted(p) == [p EXCEPT !.in_progress = Max(0, @ - 1)]
mark_completed(p) ==
    [p EXCEPT !.completed = @ + 1, !.in_progress = Max(0, @ - 1)]
(* variant: the failed counter is not incremented *)
mark_failed_uncounted(p) == [p EXCEPT !.in_progress = Max(0, @ - 1)]
mark_failed(p) ==
    [p EXCEPT !.failed = @ + 1, !.in_progress = Max(0, @ - 1)]
(* variant: a skipped job is counted in the failed bucket *)
mark_skipped_as_failed(p) ==
    [p EXCEPT !.failed = @ + 1, !.in_progress = Max(0, @ - 1)]
(* variant: the in-flight counter is decremented without the clamp *)
mark_skipped_unclamped(p) ==
    [p EXCEPT !.skipped = @ + 1, !.in_progress = @ - 1]
mark_skipped(p) ==
    [p EXCEPT !.skipped = @ + 1, !.in_progress = Max(0, @ - 1)]
finish(p) == [p EXCEPT !.in_progress = 0]
(* snapshot(), lines 65-83, for the clock value now; a float quotient is   *)
(* kept as the fraction num / den, eta_sec = None as defined = FALSE       *)
NoEta == [defined |-> FALSE, num |-> 0, den |-> 1]
(* variant: the rate counts the completed jobs only *)
snapshot_completed_rate(p, now) ==
    LET elapsed == IF p.start_ts # NoTime THEN now - p.start_ts ELSE 0
        processed == p.completed + p.failed + p.skipped
        rate == IF elapsed # 0 /\ p.completed # 0
                THEN [num |-> p.completed, den |-> elapsed] ELSE [num |-> 0, den |-> 1]
        remaining == Max(0, p.total - processed)
    IN  [taken |-> TRUE, total |-> p.total, completed |-> p.completed, failed |-> p.failed,
         skipped |-> p.skipped, in_progress |-> p.in_progress, elapsed_sec |-> elapsed,
         eta_sec |-> IF rate.num # 0
                     THEN [defined |-> TRUE, num |-> remaining * rate.den, den |-> rate.num]
                     ELSE NoEta]
snapshot(p, now) ==
    LET elapsed == IF p.start_ts # NoTime THEN now - p.start_ts ELSE 0
        processed == p.completed + p.failed + p.skipped
        rate == IF elapsed # 0 /\ processed # 0
                THEN [num |-> processed, den |-> elapsed] ELSE [num |-> 0, den |-> 1]
        remaining == Max(0, p.total - processed)
    IN  [taken |-> TRUE, total |-> p.total, completed |-> p.completed, failed |-> p.failed,
         skipped |-> p.skipped, in_progress |-> p.in_progress, elapsed_sec |-> elapsed,
         eta_sec |-> IF rate.num # 0
                     THEN [defined |-> TRUE, num |-> remaining * rate.den, den |-> rate.num]
                     ELSE NoEta]

(* ---- retry.wrapper (runtime/retrying.py) ---- *)
(* delays[min(attempt - 1, len(delays) - 1)], Python 0-based index; the   *)
(* index -1 of an empty tuple raises IndexError                            *)
(* variant: the index is taken from the attempt number, not attempt - 1 *)
DelayIndex_shifted(a, delays) == Min(a, Len(delays) - 1)
DelayIndex(a, delays) == Min(a - 1, Len(delays) - 1)
(* variant: the exhaustion test is attempt > attempts *)
OnFailure_off_by_one(e, a, c) ==
    IF e.type = FatalStepError
    THEN [next |-> "raise", exc |-> e]
    ELSE IF a > c.attempts
    THEN [next |-> "raise",
          exc |-> [type |-> JobRetryExceededError, cause |-> e.type,
                   src |-> e.src, at |-> e.at]]
    ELSE IF Len(c.delays) = 0
    THEN [next |-> "raise", exc |-> Raised("IndexError", "wrapper", a)]
    ELSE [next |-> "sleep", exc |-> e]
(* variant: no `except FatalStepError: raise` clause, Fatal is retried *)
OnFailure_retries_fatal(e, a, c) ==
    IF a >= c.attempts
    THEN [next |-> "raise",
          exc |-> [type |-> JobRetryExceededError, cause |-> e.type,
                   src |-> e.src, at |-> e.at]]
    ELSE IF Len(c.delays) = 0
    THEN [next |-> "raise", exc |-> Raised("IndexError", "wrapper", a)]
    ELSE [next |-> "sleep", exc |-> e]
(* the except clauses and the tail of the loop body, for the error e      *)
(* raised by call number a of the wrapped function: an exception leaves   *)
(* the wrapper, or the wrapper sleeps (Sleep) and calls again             *)
OnFailure(e, a, c) ==
    IF e.type = FatalStepError
    THEN [next |-> "raise", exc |-> e]
    ELSE IF a >= c.attempts
    THEN [next |-> "raise",
          exc |-> [type |-> JobRetryExceededError, cause |-> e.type,
                   src |-> e.src, at |-> e.at]]
    ELSE IF Len(c.delays) = 0
    THEN [next |-> "raise", exc |-> Raised("IndexError", "wrapper", a)]
    ELSE [next |-> "sleep", exc |-> e]

(* ---- pool ---- *)
(* variant: a worker that finished a job is not given back to the pool *)
Running_leak == {j \in Jobs : pc[j] \notin {"unsubmitted", "queued"}}
Running == {j \in Jobs : pc[j] \notin {"unsubmitted", "queued", "done"}}
(* work items leave the executor's queue in submission order *)
HeadOfQueue(j) == pc[j] = "queued" /\ \A i \in Jobs : i < j => pc[i] # "queued"

(* ---- StepRunner._process_job / retry.wrapper / _execute_job, per job ---- *)
(* the shutdown check of _process_job, line 76 *)
(* variant: the shutdown flag is not consulted *)
ShutdownCheck_ignored(flag) == "begin"
ShutdownCheck(flag) == IF flag THEN "skip" ELSE "begin"

(* the wrapped function raised e in call number attempt[j]: the wrapper    *)
(* either lets an exception leave (towards the handlers of _process_job)   *)
(* or goes to sleep before the next call                                   *)
FailCall(j, e) ==
    LET d == OnFailure(e, attempt[j], cfg)
    IN  /\ exc' = [exc EXCEPT ![j] = d.exc]
        /\ outcome' = [outcome EXCEPT ![j] =
                          IF d.next = "raise" THEN [d.exc EXCEPT !.src = "call"] ELSE @]
        /\ pc' = [pc EXCEPT ![j] = IF d.next = "sleep" THEN "sleep" ELSE "handle_pop"]

(* the except clause of _process_job that catches e (lines 86, 92, 98) *)
Handler(e) ==
    IF e.type = FatalStepError THEN "fatal"
    ELSE IF e.type = JobRetryExceededError THEN "exhausted"
    ELSE "unexpected"
(* what the handler does after its error hooks returned: raise or return *)
HandlerReraises(h) == h \in {"fatal", "unexpected"}

(* _process_job is left: its locals and those of the wrapper are gone *)
EndOfFrame(j) ==
    /\ attempt' = [attempt EXCEPT ![j] = 0]
    /\ local' = [local EXCEPT ![j] = 0]
    /\ exc' = [exc EXCEPT ![j] = NoError]

(* variant: the executor starts a thread per work item, whatever the pool size *)
Dequeue_unbounded(j) ==
    /\ HeadOfQueue(j)
    /\ pc' = [pc EXCEPT ![j] = ShutdownCheck(shutdown)]
    /\ chk' = [chk EXCEPT ![j] = IF shutdown THEN "set" ELSE "clear"]
    /\ UNCHANGED library_vars
    /\ UNCHANGED <<cfg, job_list, shutdown, progress, counters, mainpc,
                   attempt, local, exc, future, calls, outcome, stamps, sleeps,
                   marks, hookruns>>
(* a worker takes the next work item and runs _process_job up to line 76 *)
Dequeue(j) ==
    /\ HeadOfQueue(j)
    /\ Cardinality(Running) < cfg.threads
    /\ pc' = [pc EXCEPT ![j] = ShutdownCheck(shutdown)]
    /\ chk' = [chk EXCEPT ![j] = IF shutdown THEN "set" ELSE "clear"]
    /\ UNCHANGED library_vars
    /\ UNCHANGED <<cfg, job_list, shutdown, progress, counters, mainpc,
                   attempt, local, exc, future, calls, outcome, stamps, sleeps,
                   marks, hookruns>>

(* lines 77-79 *)
Skip(j) ==
    /\ pc[j] = "skip"
    /\ progress' = mark_skipped(progress)
    /\ marks' = [marks EXCEPT ![j] = Append(@, "skipped")]
    /\ future' = [future EXCEPT ![j] = FutureReturned]
    /\ pc' = [pc EXCEPT ![j] = "done"]
    /\ UNCHANGED library_vars
    /\ UNCHANGED <<cfg, job_list, shutdown, counters, mainpc, attempt, local,
                   exc, chk, calls, outcome, stamps, sleeps, hookruns>>

(* variant: the shutdown flag is looked at again after begin_job *)
Begin_rechecks(j) ==
    /\ pc[j] = "begin"
    /\ progress' = begin_job(progress)
    /\ attempt' = [attempt EXCEPT ![j] = 1]
    /\ exc' = [exc EXCEPT ![j] = NoError]
    /\ calls' = [calls EXCEPT ![j] = @ + 1]
    /\ pc' = [pc EXCEPT ![j] = IF shutdown THEN "skip" ELSE "exec_read"]
    /\ UNCHANGED library_vars
    /\ UNCHANGED <<cfg, job_list, shutdown, counters, mainpc, local, future,
                   chk, outcome, stamps, sleeps, marks, hookruns>>
(* lines 81-85, the entry of retry.wrapper (retrying.py 22-24) and its   *)
(* first call of the wrapped function                                      *)
Begin(j) ==
    /\ pc[j] = "begin"
    /\ progress' = begin_job(progress)
    /\ attempt' = [attempt EXCEPT ![j] = 1]
    /\ exc' = [exc EXCEPT ![j] = NoError]
    /\ calls' = [calls EXCEPT ![j] = @ + 1]
    /\ pc' = [pc EXCEPT ![j] = "exec_read"]
    /\ UNCHANGED library_vars
    /\ UNCHANGED <<cfg, job_list, shutdown, counters, mainpc, local, future,
                   chk, outcome, stamps, sleeps, marks, hookruns>>

(* _execute_job lines 116-117: read the attempt counter of job_id *)
ExecRead(j) ==
    /\ pc[j] = "exec_read"
    /\ local' = [local EXCEPT ![j] = counters[job_list[j]] + 1]
    /\ pc' = [pc EXCEPT ![j] = "exec_write"]
    /\ UNCHANGED library_vars
    /\ UNCHANGED <<cfg, job_list, shutdown, progress, counters, mainpc,
                   attempt, exc, future, chk, calls, outcome, stamps, sleeps,
                   marks, hookruns>>

(* variant: run_before is not called, process() follows the stamp *)
ExecWrite_no_before(j) ==
    /\ pc[j] = "exec_write"
    /\ counters' = [counters EXCEPT ![job_list[j]] = local[j]]
    /\ stamps' = [stamps EXCEPT ![j] = Append(@, local[j])]
    /\ pc' = [pc EXCEPT ![j] = "process"]
    /\ UNCHANGED library_vars
    /\ UNCHANGED <<cfg, job_list, shutdown, progress, mainpc, attempt, local,
                   exc, future, chk, calls, outcome, sleeps, marks, hookruns>>
(* _execute_job lines 118-120: store the counter, stamp the payload *)
ExecWrite(j) ==
    /\ pc[j] = "exec_write"
    /\ counters' = [counters EXCEPT ![job_list[j]] = local[j]]
    /\ stamps' = [stamps EXCEPT ![j] = Append(@, local[j])]
    /\ pc' = [pc EXCEPT ![j] = "before"]
    /\ UNCHANGED library_vars
    /\ UNCHANGED <<cfg, job_list, shutdown, progress, mainpc, attempt, local,
                   exc, future, chk, calls, outcome, sleeps, marks, hookruns>>

(* _execute_job line 121: hooks.run_before(job) returns or raises *)
RunBefore(j) ==
    /\ pc[j] = "before"
    /\ hookruns' = [hookruns EXCEPT ![j].before = @ + 1]
    /\ \/ /\ pc' = [pc EXCEPT ![j] = "process"]
          /\ UNCHANGED <<exc, outcome>>
       \/ \E k \in RaiseKinds : FailCall(j, Raised(k, "before", attempt[j]))
    /\ UNCHANGED library_vars
    /\ UNCHANGED <<cfg, job_list, shutdown, progress, counters, mainpc,
                   attempt, local, future, chk, calls, stamps, sleeps, marks>>

(* _execute_job lines 122-126: step_impl.process(job) returns or raises *)
Process(j) ==
    /\ pc[j] = "process"
    /\ \/ /\ pc' = [pc EXCEPT ![j] = "after"]
          /\ UNCHANGED <<exc, outcome>>
       \/ \E k \in RaiseKinds : FailCall(j, Raised(k, "process", attempt[j]))
    /\ UNCHANGED library_vars
    /\ UNCHANGED <<cfg, job_list, shutdown, progress, counters, mainpc,
                   attempt, local, future, chk, calls, stamps, sleeps, marks,
                   hookruns>>

(* _execute_job line 127: hooks.run_after(job) returns or raises *)
RunAfter(j) ==
    /\ pc[j] = "after"
    /\ hookruns' = [hookruns EXCEPT ![j].after = @ + 1]
    /\ \/ /\ pc' = [pc EXCEPT ![j] = "exec_pop"]
          /\ UNCHANGED <<exc, outcome>>
       \/ \E k \in RaiseKinds : FailCall(j, Raised(k, "after", attempt[j]))
    /\ UNCHANGED library_vars
    /\ UNCHANGED <<cfg, job_list, shutdown, progress, counters, mainpc,
                   attempt, local, future, chk, calls, stamps, sleeps, marks>>

(* _execute_job line 133, then the wrapper returns fn's result (retrying 25) *)
ExecPop(j) ==
    /\ pc[j] = "exec_pop"
    /\ counters' = [counters EXCEPT ![job_list[j]] = 0]
    /\ outcome' = [outcome EXCEPT ![j] = Returned]
    /\ pc' = [pc EXCEPT ![j] = "complete"]
    /\ UNCHANGED library_vars
    /\ UNCHANGED <<cfg, job_list, shutdown, progress, mainpc, attempt, local,
                   exc, future, chk, calls, stamps, sleeps, marks, hookruns>>

(* retrying.py 40-47 and 23-25: sleep for the chosen delay, then the next *)
(* iteration of the loop calls the wrapped function again                  *)
Sleep(j) ==
    /\ pc[j] = "sleep"
    /\ sleeps' = [sleeps EXCEPT ![j] =
                    Append(@, cfg.delays[DelayIndex(attempt[j], cfg.delays) + 1])]
    /\ attempt' = [attempt EXCEPT ![j] = @ + 1]
    /\ calls' = [calls EXCEPT ![j] = @ + 1]
    /\ pc' = [pc EXCEPT ![j] = "exec_read"]
    /\ UNCHANGED library_vars
    /\ UNCHANGED <<cfg, job_list, shutdown, progress, counters, mainpc, local,
                   exc, future, chk, outcome, stamps, marks, hookruns>>

(* _process_job lines 104-113: the else branch of the try *)
Complete(j) ==
    /\ pc[j] = "complete"
    /\ progress' = mark_completed(progress)
    /\ marks' = [marks EXCEPT ![j] = Append(@, "completed")]
    /\ future' = [future EXCEPT ![j] = FutureReturned]
    /\ pc' = [pc EXCEPT ![j] = "done"]
    /\ EndOfFrame(j)
    /\ UNCHANGED library_vars
    /\ UNCHANGED <<cfg, job_list, shutdown, counters, mainpc, chk, calls,
                   outcome, stamps, sleeps, hookruns>>

(* variant: the handlers leave the attempt counter in the map *)
HandlePop_keeps(j) ==
    /\ pc[j] = "handle_pop"
    /\ pc' = [pc EXCEPT ![j] = "handle_mark"]
    /\ UNCHANGED library_vars
    /\ UNCHANGED <<cfg, job_list, shutdown, progress, counters, mainpc, attempt, local,
                   exc, future, chk, calls, outcome, stamps, sleeps, marks,
                   hookruns>>
(* lines 87, 93, 99: the handler drops the attempt counter *)
HandlePop(j) ==
    /\ pc[j] = "handle_pop"
    /\ counters' = [counters EXCEPT ![job_list[j]] = 0]
    /\ pc' = [pc EXCEPT ![j] = "handle_mark"]
    /\ UNCHANGED library_vars
    /\ UNCHANGED <<cfg, job_list, shutdown, progress, mainpc, attempt, local,
                   exc, future, chk, calls, outcome, stamps, sleeps, marks,
                   hookruns>>

(* variant: the handler runs the error hooks without counting the failure *)
HandleMark_uncounted(j) ==
    /\ pc[j] = "handle_mark"
    /\ pc' = [pc EXCEPT ![j] = "handle_hook"]
    /\ UNCHANGED library_vars
    /\ UNCHANGED <<cfg, job_list, shutdown, progress, counters, mainpc, attempt, local,
                   exc, future, chk, calls, outcome, stamps, sleeps, marks, hookruns>>
(* lines 88, 94, 100 *)
HandleMark(j) ==
    /\ pc[j] = "handle_mark"
    /\ progress' = mark_failed(progress)
    /\ marks' = [marks EXCEPT ![j] = Append(@, "failed")]
    /\ pc' = [pc EXCEPT ![j] = "handle_hook"]
    /\ UNCHANGED library_vars
    /\ UNCHANGED <<cfg, job_list, shutdown, counters, mainpc, attempt, local,
                   exc, future, chk, calls, outcome, stamps, sleeps, hookruns>>

(* lines 89-91, 95-97, 101-103: error hooks, then re-raise or return; an   *)
(* exception of an error hook leaves _process_job as it is                 *)
HandleHook(j) ==
    /\ pc[j] = "handle_hook"
    /\ hookruns' = [hookruns EXCEPT ![j].error = @ + 1]
    /\ \/ future' = [future EXCEPT ![j] =
                        IF HandlerReraises(Handler(exc[j]))
                        THEN FutureRaised(exc[j]) ELSE FutureReturned]
       \/ \E k \in RaiseKinds :
            future' = [future EXCEPT ![j] =
                          FutureRaised(Raised(k, "error_hook", attempt[j]))]
    /\ pc' = [pc EXCEPT ![j] = "done"]
    /\ EndOfFrame(j)
    /\ UNCHANGED library_vars
    /\ UNCHANGED <<cfg, job_list, shutdown, progress, counters, mainpc, chk,
                   calls, outcome, stamps, sleeps, marks>>

(* ---- StepRunner.run, the driving thread ---- *)
(* lines 53-59: progress.start, then every job is handed to pool.submit *)
RunStart ==
    /\ mainpc = "idle"
    /\ progress' = start(progress, Len(job_list))
    /\ pc' = [j \in Jobs |-> "queued"]
    /\ mainpc' = "running"
    /\ UNCHANGED library_vars
    /\ UNCHANGED <<cfg, job_list, shutdown, counters, attempt, local, exc,
                   future, chk, calls, outcome, stamps, sleeps, marks,
                   hookruns>>

(* lines 60-70: future.result() inside try / except Exception *)
CaughtAtCollection(f) == f.state = "returned" \/ IsException(f.type)

(* lines 60-73: the as_completed loop has seen every future and the pool   *)
(* has shut down; run() calls finish() and returns, unless future.result() *)
(* raised past the except clause, which leaves run() once the pool is idle *)
Finish ==
    /\ mainpc = "running"
    /\ \A j \in Jobs : pc[j] = "done"
    /\ IF \A j \in Jobs : CaughtAtCollection(future[j])
       THEN progress' = finish(progress) /\ mainpc' = "returned"
       ELSE progress' = progress /\ mainpc' = "raised"
    /\ UNCHANGED library_vars
    /\ UNCHANGED <<cfg, job_list, shutdown, counters, pc, attempt, local, exc,
                   future, chk, calls, outcome, stamps, sleeps, marks,
                   hookruns>>

(* variant: setting the flag also cancels the jobs waiting between two attempts *)
request_shutdown_preemptive ==
    /\ shutdown' = TRUE
    /\ pc' = [j \in Jobs |-> IF pc[j] = "sleep" THEN "skip" ELSE pc[j]]
    /\ UNCHANGED library_vars
    /\ UNCHANGED <<cfg, job_list, progress, counters, mainpc, attempt,
                   local, exc, future, chk, calls, outcome, stamps, sleeps,
                   marks, hookruns>>
(* lines 135-137, from a signal handler or any thread *)
request_shutdown ==
    /\ shutdown' = TRUE
    /\ UNCHANGED library_vars
    /\ UNCHANGED <<cfg, job_list, progress, counters, mainpc, pc, attempt,
                   local, exc, future, chk, calls, outcome, stamps, sleeps,
                   marks, hookruns>>

(* ---- RateLimiter (runtime/rate_limit.py) ---- *)
(* Quantities are whole numbers: tokens, capacities and weights in token   *)
(* units (a unit is a fixed fraction of a token), time in clock ticks, the *)
(* refill rate in units per tick. Every step of a caller happens at a tick *)
(* instant, so a sleep of x ticks ends x rounded up, or more, ticks after  *)
(* it began.                                                               *)
Callers == DOMAIN acq
Configured == DOMAIN buckets
(* self._buckets.get(bucket_name), line 43 *)
None == 0
(* variant: an unknown name is served by some configured bucket *)
Lookup_fallback(name) ==
    IF name \in Configured THEN name
    ELSE IF Configured # {} THEN CHOOSE b \in Configured : TRUE ELSE None
Lookup(name) == IF name \in Configured THEN name ELSE None
(* bucket.lock can be taken *)
(* variant: acquire does not take the bucket's lock *)
LockFree_unlocked(b) == TRUE
(* variant: one lock shared by all the buckets *)
LockFree_shared(b) == \A x \in Configured : buckets[x].lock = 0
LockFree(b) == buckets[b].lock = 0
(* _refill, lines 57-65, for the clock value now *)
(* variant: the refilled amount is not capped at the capacity *)
refill_unclamped(bk, now) ==
    IF now - bk.updated_at <= 0 THEN bk
    ELSE [bk EXCEPT !.tokens = bk.tokens + (now - bk.updated_at) * bk.refill_rate,
                    !.updated_at = now]
(* variant: the refill does not move updated_at forward *)
refill_unstamped(bk, now) ==
    IF now - bk.updated_at <= 0 THEN bk
    ELSE [bk EXCEPT !.tokens = Min(bk.capacity,
                                   bk.tokens + (now - bk.updated_at) * bk.refill_rate)]
refill(bk, now) ==
    IF now - bk.updated_at <= 0 THEN bk
    ELSE [bk EXCEPT !.tokens = Min(bk.capacity,
                                   bk.tokens + (now - bk.updated_at) * bk.refill_rate),
                    !.updated_at = now]
(* line 53, in ticks rounded up to the next tick instant *)
wait_time(weight, bk) == (weight - bk.tokens + bk.refill_rate - 1) \div bk.refill_rate
(* the 0.05 s floor of line 55: one tick, the shortest sleep on the grid *)
MinSleep == 1

(* lines 42-45: acquire(bucket_name, weight) is called; without a bucket   *)
(* of that name it returns at once                                         *)
AcquireCall(c) ==
    /\ acq[c].pc = "idle"
    /\ acq[c].returned < acq[c].budget
    /\ acq' = [acq EXCEPT ![c] =
                 IF Lookup(@.name) = None
                 THEN [@ EXCEPT !.returned = @ + 1,
                                !.t_call = IF acq[c].returned = 0 THEN clock ELSE @]
                 ELSE [@ EXCEPT !.pc = "lock", !.bucket = Lookup(acq[c].name),
                                !.t_call = IF acq[c].returned = 0 THEN clock ELSE @]]
    /\ UNCHANGED <<buckets, clock>>
    /\ UNCHANGED <<session_vars, range_vars, runner_vars, jobs_vars, tracker_vars, hooks_vars>>

(* lines 48-49: the lock is taken, _refill reads the clock *)
AcquireEnter(c) ==
    /\ acq[c].pc = "lock"
    /\ LockFree(acq[c].bucket)
    /\ buckets' = [buckets EXCEPT ![acq[c].bucket] =
                      [refill(@, clock) EXCEPT !.lock = c]]
    /\ acq' = [acq EXCEPT ![c].pc = "test"]
    /\ UNCHANGED clock
    /\ UNCHANGED <<session_vars, range_vars, runner_vars, jobs_vars, tracker_vars, hooks_vars>>

(* variant: the test is tokens > weight *)
AcquireTest_strict(c) ==
    /\ acq[c].pc = "test"
    /\ LET bk == buckets[acq[c].bucket]
       IN  IF bk.tokens > acq[c].weight
           THEN /\ acq' = [acq EXCEPT ![c].pc = "debit"]
                /\ UNCHANGED buckets
           ELSE IF bk.refill_rate = 0
           THEN /\ acq' = [acq EXCEPT ![c].pc = "ZeroDivisionError"]
                /\ buckets' = [buckets EXCEPT ![acq[c].bucket].lock = 0]
           ELSE /\ acq' = [acq EXCEPT ![c].pc = "asleep",
                                      ![c].wake = clock + Max(wait_time(acq[c].weight, bk),
                                                              MinSleep)]
                /\ buckets' = [buckets EXCEPT ![acq[c].bucket].lock = 0]
    /\ UNCHANGED clock
    /\ UNCHANGED <<session_vars, range_vars, runner_vars, jobs_vars, tracker_vars, hooks_vars>>
(* lines 50, 53-55: enough tokens, or the lock is released and the caller  *)
(* sleeps max(wait_time, 0.05); refill_rate = 0 would divide by zero       *)
AcquireTest(c) ==
    /\ acq[c].pc = "test"
    /\ LET bk == buckets[acq[c].bucket]
       IN  IF bk.tokens >= acq[c].weight
           THEN /\ acq' = [acq EXCEPT ![c].pc = "debit"]
                /\ UNCHANGED buckets
           ELSE IF bk.refill_rate = 0
           THEN /\ acq' = [acq EXCEPT ![c].pc = "ZeroDivisionError"]
                /\ buckets' = [buckets EXCEPT ![acq[c].bucket].lock = 0]
           ELSE /\ acq' = [acq EXCEPT ![c].pc = "asleep",
                                      ![c].wake = clock + Max(wait_time(acq[c].weight, bk),
                                                              MinSleep)]
                /\ buckets' = [buckets EXCEPT ![acq[c].bucket].lock = 0]
    /\ UNCHANGED clock
    /\ UNCHANGED <<session_vars, range_vars, runner_vars, jobs_vars, tracker_vars, hooks_vars>>

(* lines 51-52: debit, leave the with block, return *)
AcquireDebit(c) ==
    /\ acq[c].pc = "debit"
    /\ buckets' = [buckets EXCEPT ![acq[c].bucket] =
                      [@ EXCEPT !.tokens = @ - acq[c].weight, !.lock = 0,
                                !.granted = @ + acq[c].weight]]
    /\ acq' = [acq EXCEPT ![c].pc = "idle", ![c].returned = @ + 1]
    /\ UNCHANGED clock
    /\ UNCHANGED <<session_vars, range_vars, runner_vars, jobs_vars, tracker_vars, hooks_vars>>

(* line 55 then 47: time.sleep has lasted at least what was asked *)
AcquireWake(c) ==
    /\ acq[c].pc = "asleep"
    /\ clock >= acq[c].wake
    /\ acq' = [acq EXCEPT ![c].pc = "lock", ![c].wake = 0]
    /\ UNCHANGED <<buckets, clock>>
    /\ UNCHANGED <<session_vars, range_vars, runner_vars, jobs_vars, tracker_vars, hooks_vars>>

(* the monotonic clock advances; a sole caller is followed for MaxSeqTime *)
(* ticks, concurrent callers for MaxTime                                   *)
Horizon == IF Cardinality(Callers) = 1 THEN MaxSeqTime ELSE MaxTime
Tick ==
    /\ clock < Horizon
    /\ clock' = clock + 1
    /\ UNCHANGED <<buckets, acq>>
    /\ UNCHANGED <<session_vars, range_vars, runner_vars, jobs_vars, tracker_vars, hooks_vars>>

(* ---- Job, make_job, deduplicate_jobs (runtime/jobs.py) ---- *)
(* A Python str is a sequence of characters. A payload maps each field to *)
(* a value or to Absent; a value is an int or a str, by its characters.   *)
FieldNames == {"f", "g"}
Absent == [kind |-> "absent", chars |-> <<>>]
Values == {[kind |-> "int", chars |-> <<"1">>], [kind |-> "str", chars |-> <<"1">>],
           [kind |-> "str", chars |-> <<"2">>],
           [kind |-> "str", chars |-> <<"x", ":", "y">>]}
Payloads == [FieldNames -> Values \cup {Absent}]
KeyFieldLists == {<<>>, <<"f">>, <<"g">>, <<"f", "g">>, <<"g", "f">>}
(* str(value) *)
str(v) == v.chars
(* uuid.uuid4().hex: a string no payload value contains, new at each draw *)
uuid4hex(n) == [i \in 1..n |-> "u"]
(* line 22: [str(payload[field]) for field in key_fields if field in payload] *)
(* variant: payload.get(field) for every key field, absent or not *)
RECURSIVE Parts_unfiltered(_, _)
Parts_unfiltered(payload, fields) ==
    IF fields = <<>> THEN <<>>
    ELSE <<IF payload[Head(fields)] # Absent THEN str(payload[Head(fields)])
           ELSE <<"N", "o", "n", "e">> >> \o Parts_unfiltered(payload, Tail(fields))
RECURSIVE Parts(_, _)
Parts(payload, fields) ==
    IF fields = <<>> THEN <<>>
    ELSE (IF payload[Head(fields)] # Absent THEN <<str(payload[Head(fields)])>> ELSE <<>>)
         \o Parts(payload, Tail(fields))
(* ":".join(parts) *)
RECURSIVE Join(_)
Join(parts) ==
    IF parts = <<>> THEN <<>>
    ELSE IF Len(parts) = 1 THEN parts[1]
    ELSE parts[1] \o <<":">> \o Join(Tail(parts))
(* variant: the key is the string of the first present key field alone *)
make_job_first_part(step, payload, fields, id, uuid) ==
    LET parts == Parts(payload, fields)
    IN  [step |-> step, payload |-> payload,
         entity_key |-> IF parts # <<>> THEN parts[1] ELSE uuid,
         id |-> id]
(* lines 21-24; id tells apart the Job objects by their place in the batch *)
make_job(step, payload, fields, id, uuid) ==
    LET parts == Parts(payload, fields)
    IN  [step |-> step, payload |-> payload,
         entity_key |-> IF parts # <<>> THEN Join(parts) ELSE uuid,
         id |-> id]
(* seen[key] = job on a dict, which keeps its keys in insertion order: an  *)
(* existing key keeps its place and gets the new value                     *)
(* variant: an existing key keeps its first value (setdefault) *)
DictSet_keep_first(d, k, v) ==
    IF \E i \in 1..Len(d) : d[i].key = k THEN d
    ELSE Append(d, [key |-> k, value |-> v])
(* variant: an existing key is removed and inserted again at the end *)
DictSet_move_to_end(d, k, v) ==
    Append(SelectSeq(d, LAMBDA e : e.key # k), [key |-> k, value |-> v])
DictSet(d, k, v) ==
    IF \E i \in 1..Len(d) : d[i].key = k
    THEN [i \in 1..Len(d) |-> IF d[i].key = k THEN [key |-> k, value |-> v] ELSE d[i]]
    ELSE Append(d, [key |-> k, value |-> v])
(* lines 28-30: the loop over the first n jobs *)
RECURSIVE Seen(_, _)
Seen(jobs, n) ==
    IF n = 0 THEN <<>>
    ELSE DictSet(Seen(jobs, n - 1), jobs[n].entity_key, jobs[n])
(* variant: the values are returned last key first *)
deduplicate_jobs_reversed(jobs) ==
    LET seen == Seen(jobs, Len(jobs))
    IN  [i \in 1..Len(seen) |-> seen[Len(seen) + 1 - i].value]
(* lines 27-31 *)
deduplicate_jobs(jobs) ==
    LET seen == Seen(jobs, Len(jobs))
    IN  [i \in 1..Len(seen) |-> seen[i].value]

NotCalled == [called |-> FALSE, out |-> <<>>]
(* a step's load_jobs makes one more job, from any payload *)
MakeJob(payload) ==
    /\ ~deduped.called
    /\ Len(made) < MaxMade
    /\ LET job == make_job("step", payload, key_fields, Len(made) + 1, uuid4hex(uuids + 1))
       IN  /\ made' = Append(made, job)
           /\ uuids' = IF Parts(payload, key_fields) # <<>> THEN uuids ELSE uuids + 1
    /\ UNCHANGED <<key_fields, deduped>>
    /\ UNCHANGED <<session_vars, range_vars, runner_vars, limiter_vars, tracker_vars, hooks_vars>>

(* deduplicate_jobs is applied to the batch *)
Deduplicate ==
    /\ ~deduped.called
    /\ deduped' = [called |-> TRUE, out |-> deduplicate_jobs(made)]
    /\ UNCHANGED <<key_fields, made, uuids>>
    /\ UNCHANGED <<session_vars, range_vars, runner_vars, limiter_vars, tracker_vars, hooks_vars>>

(* ---- filter_by_range (runtime/jobs.py) ---- *)
Items == {"a", "b"}
NoRange == [items |-> <<>>, start |-> 0, end |-> 0, called |-> FALSE, out |-> <<>>]
(* lines 43-48: the loop from position index on, with start already clamped *)
(* variant: end = -1 is not a sentinel *)
RECURSIVE RangeLoop_no_sentinel(_, _, _, _, _)
RangeLoop_no_sentinel(items, index, range_start, range_end, filtered) ==
    IF index > Len(items) THEN filtered
    ELSE IF index < range_start
    THEN RangeLoop_no_sentinel(items, index + 1, range_start, range_end, filtered)
    ELSE IF index > range_end THEN filtered
    ELSE RangeLoop_no_sentinel(items, index + 1, range_start, range_end,
                               Append(filtered, items[index]))
RECURSIVE RangeLoop(_, _, _, _, _)
RangeLoop(items, index, range_start, range_end, filtered) ==
    IF index > Len(items) THEN filtered
    ELSE IF index < range_start
    THEN RangeLoop(items, index + 1, range_start, range_end, filtered)
    ELSE IF range_end # -1 /\ index > range_end THEN filtered
    ELSE RangeLoop(items, index + 1, range_start, range_end,
                   Append(filtered, items[index]))
(* lines 34-49 *)
filter_by_range(items, range_start, range_end) ==
    RangeLoop(items, 1, Max(1, range_start), range_end, <<>>)
(* filter_by_range is called on the arguments drawn at the start *)
FilterByRange ==
    /\ ~ranged.called
    /\ ranged' = [ranged EXCEPT !.called = TRUE,
                                !.out = filter_by_range(ranged.items, ranged.start, ranged.end)]
    /\ UNCHANGED <<runner_vars, limiter_vars, jobs_vars, tracker_vars, hooks_vars, session_vars>>

(* ---- Progress as the runner drives it, with the clock ---- *)
NoSnapshot ==
    [taken |-> FALSE, total |-> 0, completed |-> 0, failed |-> 0, skipped |-> 0,
     in_progress |-> 0, elapsed_sec |-> 0, eta_sec |-> NoEta]
(* jobs of the batch no worker has taken yet *)
Untaken ==
    progress.total - (progress.completed + progress.failed + progress.skipped) - inflight
(* runner.py line 54: run() starts the tracker for a batch of total jobs *)
ProgressStart(total) ==
    /\ progress.start_ts = NoTime
    /\ progress' = start(progress, total)
    /\ UNCHANGED <<cfg, job_list, shutdown, counters, mainpc, pc, attempt, local,
                   exc, future, chk, calls, outcome, stamps, sleeps, marks, hookruns>>
    /\ UNCHANGED <<session_vars, range_vars, limiter_vars, jobs_vars, tracker_vars, hooks_vars>>
(* runner.py line 82 *)
ProgressBegin ==
    /\ progress.start_ts # NoTime
    /\ Untaken > 0
    /\ progress' = begin_job(progress)
    /\ inflight' = inflight + 1
    /\ UNCHANGED <<cfg, job_list, shutdown, counters, mainpc, pc, attempt, local,
                   exc, future, chk, calls, outcome, stamps, sleeps, marks, hookruns>>
    /\ UNCHANGED <<session_vars, range_vars, limiter_vars, jobs_vars, snap, hooks_vars>>
(* runner.py line 105 *)
ProgressCompleted ==
    /\ inflight > 0
    /\ progress' = mark_completed(progress)
    /\ inflight' = inflight - 1
    /\ UNCHANGED <<cfg, job_list, shutdown, counters, mainpc, pc, attempt, local,
                   exc, future, chk, calls, outcome, stamps, sleeps, marks, hookruns>>
    /\ UNCHANGED <<session_vars, range_vars, limiter_vars, jobs_vars, snap, hooks_vars>>
(* runner.py lines 88, 94, 100 *)
ProgressFailed ==
    /\ inflight > 0
    /\ progress' = mark_failed(progress)
    /\ inflight' = inflight - 1
    /\ UNCHANGED <<cfg, job_list, shutdown, counters, mainpc, pc, attempt, local,
                   exc, future, chk, calls, outcome, stamps, sleeps, marks, hookruns>>
    /\ UNCHANGED <<session_vars, range_vars, limiter_vars, jobs_vars, snap, hooks_vars>>
(* runner.py line 78 *)
ProgressSkipped ==
    /\ progress.start_ts # NoTime
    /\ Untaken > 0
    /\ progress' = mark_skipped(progress)
    /\ UNCHANGED <<cfg, job_list, shutdown, counters, mainpc, pc, attempt, local,
                   exc, future, chk, calls, outcome, stamps, sleeps, marks, hookruns>>
    /\ UNCHANGED <<session_vars, range_vars, limiter_vars, jobs_vars, tracker_vars, hooks_vars>>
(* snapshot() is called: runner.py line 106, main.py line 109, any thread *)
Snapshot ==
    /\ snap' = snapshot(progress, clock)
    /\ UNCHANGED runner_vars
    /\ UNCHANGED <<session_vars, range_vars, limiter_vars, jobs_vars, inflight, hooks_vars>>

(* ---- HookRegistry (runtime/hooks.py) ---- *)
HookKinds == {"before", "after", "error"}
(* a callback: which function it is and whether it raises when invoked *)
Callbacks == [fn : 1..MaxHookFns, raises : BOOLEAN]
NoCall == [kind |-> "none", pos |-> 0, log |-> <<>>, result |-> "none"]
Registered == Len(registry["before"]) + Len(registry["after"]) + Len(registry["error"])
(* register_before / register_after / register_error: append to the list *)
Register(kind, cb) ==
    /\ Registered < MaxHooks
    /\ registry' = [registry EXCEPT ![kind] = Append(@, cb)]
    /\ UNCHANGED <<session_vars, range_vars, runner_vars, limiter_vars, jobs_vars, tracker_vars, hookcall>>
(* run_before / run_after / run_error is called; the for loop starts *)
RunHooks(kind) ==
    /\ hookcall.result # "running"
    /\ hookcall' = [kind |-> kind, pos |-> 1, log |-> <<>>, result |-> "running"]
    /\ UNCHANGED <<session_vars, range_vars, runner_vars, limiter_vars, jobs_vars, tracker_vars, registry>>
(* variant: a raising callback does not end the loop *)
Invoke_isolated ==
    /\ hookcall.result = "running"
    /\ hookcall.pos <= Len(registry[hookcall.kind])
    /\ hookcall' = [hookcall EXCEPT !.log = Append(@, registry[hookcall.kind][hookcall.pos]),
                                    !.pos = @ + 1]
    /\ UNCHANGED <<session_vars, range_vars, runner_vars, limiter_vars, jobs_vars, tracker_vars, registry>>
(* one turn of the for loop: the next callback of the list is invoked; if *)
(* it raises, the exception leaves the call                               *)
Invoke ==
    /\ hookcall.result = "running"
    /\ hookcall.pos <= Len(registry[hookcall.kind])
    /\ LET cb == registry[hookcall.kind][hookcall.pos] IN
        hookcall' = [hookcall EXCEPT !.log = Append(@, cb),
                                     !.pos = IF cb.raises THEN @ ELSE @ + 1,
                                     !.result = IF cb.raises THEN "raised" ELSE @]
    /\ UNCHANGED <<session_vars, range_vars, runner_vars, limiter_vars, jobs_vars, tracker_vars, registry>>
(* the list is exhausted: the call returns None *)
HooksReturn ==
    /\ hookcall.result = "running"
    /\ hookcall.pos > Len(registry[hookcall.kind])
    /\ hookcall' = [hookcall EXCEPT !.result = "returned"]
    /\ UNCHANGED <<session_vars, range_vars, runner_vars, limiter_vars, jobs_vars, tracker_vars, registry>>

(* ---- initial states ---- *)
(* job lists: entity keys in restricted-growth form (a new key is the     *)
(* smallest unused one), so every pattern of colliding job_ids occurs once *)
RECURSIVE KeyLists(_)
KeyLists(n) ==
    IF n = 0 THEN {<<>>}
    ELSE {Append(s, k) : s \in KeyLists(n - 1), k \in Keys}
Canonical(s) ==
    \A i \in 1..Len(s) : s[i] = 1 \/ \E h \in 1..(i - 1) : s[h] >= s[i] - 1
JobLists == {s \in UNION {KeyLists(n) : n \in 0..MaxJobs} : Canonical(s)}

RECURSIVE SeqsUpTo(_, _)
SeqsUpTo(S, n) ==
    IF n = 0 THEN {<<>>}
    ELSE SeqsUpTo(S, n - 1) \cup {Append(s, x) : s \in SeqsUpTo(S, n - 1), x \in S}

InitWith(c, jl) ==
    /\ cfg = c
    /\ job_list = jl
    /\ shutdown = FALSE
    /\ progress = [total |-> 0, completed |-> 0, failed |-> 0, skipped |-> 0,
                   in_progress |-> 0, start_ts |-> NoTime]
    /\ counters = [k \in Keys |-> 0]
    /\ mainpc = "idle"
    /\ pc = [j \in 1..Len(jl) |-> "unsubmitted"]
    /\ attempt = [j \in 1..Len(jl) |-> 0]
    /\ local = [j \in 1..Len(jl) |-> 0]
    /\ exc = [j \in 1..Len(jl) |-> NoError]
    /\ future = [j \in 1..Len(jl) |-> FuturePending]
    /\ chk = [j \in 1..Len(jl) |-> "none"]
    /\ calls = [j \in 1..Len(jl) |-> 0]
    /\ outcome = [j \in 1..Len(jl) |-> NoError]
    /\ stamps = [j \in 1..Len(jl) |-> <<>>]
    /\ sleeps = [j \in 1..Len(jl) |-> <<>>]
    /\ marks = [j \in 1..Len(jl) |-> <<>>]
    /\ hookruns = [j \in 1..Len(jl) |-> [before |-> 0, after |-> 0, error |-> 0]]
    /\ reruns = <<>>

(* a RateLimiter without buckets and without callers *)
LimiterUnused ==
    /\ buckets = <<>>
    /\ clock = 0
    /\ acq = <<>>

(* no snapshot has been taken *)
TrackerUnused ==
    /\ snap = NoSnapshot
    /\ inflight = 0

(* no hook is registered *)
HooksUnused ==
    /\ registry = [kind \in HookKinds |-> <<>>]
    /\ hookcall = NoCall

(* filter_by_range has no call *)
RangeUnused == ranged = NoRange

(* no job has been made *)
JobsUnused ==
    /\ key_fields = <<>>
    /\ made = <<>>
    /\ uuids = 0
    /\ deduped = NotCalled

(* a runner over a batch: Config.threads >= 1, RetrySettings.attempts >= 1 *)
Init ==
    \E t \in 1..MaxThreads, a \in 1..MaxAttempts, d \in {<<>>, <<1, 2>>}, jl \in JobLists :
        /\ InitWith([threads |-> t, attempts |-> a, delays |-> d], jl)
        /\ LimiterUnused
        /\ JobsUnused
        /\ TrackerUnused
        /\ HooksUnused
        /\ RangeUnused

(* one job on one thread: the retry wrapper over every (attempts, delays) *)
InitRetry ==
    \E a \in 1..RetryMaxAttempts, d \in SeqsUpTo(DelayValues, MaxDelays) :
        /\ InitWith([threads |-> 1, attempts |-> a, delays |-> d], <<1>>)
        /\ LimiterUnused
        /\ JobsUnused
        /\ TrackerUnused
        /\ HooksUnused
        /\ RangeUnused

(* RateLimiter.__init__ over a plan (RateLimit: calls_per_minute > 0, burst *)
(* >= 1), here the same limit for every name: every bucket starts full at *)
(* construction time; then the callers, each with the bucket name and the *)
(* weight it asks for, listed by name. A sole caller makes up to          *)
(* MaxSeqCalls calls, concurrent callers MaxCalls each.                   *)
RateLimit == [capacity : 1..MaxCapacity, refill_rate : 1..MaxRate]
Bucket0(rl) ==
    [capacity |-> rl.capacity, refill_rate |-> rl.refill_rate, tokens |-> rl.capacity,
     updated_at |-> 0, lock |-> 0, granted |-> 0]
Caller0(name, weight, budget) ==
    [pc |-> "idle", name |-> name, weight |-> weight, budget |-> budget,
     bucket |-> None, wake |-> 0, returned |-> 0, t_call |-> 0]
InitLimiter ==
    /\ InitWith([threads |-> 1, attempts |-> 1, delays |-> <<>>], <<>>)
    /\ JobsUnused
    /\ TrackerUnused
    /\ HooksUnused
    /\ RangeUnused
    /\ clock = 0
    /\ \E rl \in RateLimit : buckets = [b \in 1..MaxBuckets |-> Bucket0(rl)]
    /\ \E nc \in 1..MaxCallers :
        \E names \in [1..nc -> 1..(MaxBuckets + 1)], weights \in [1..nc -> 1..MaxWeight] :
          /\ \A c \in 2..nc : names[c - 1] <= names[c]
          /\ acq = [c \in 1..nc |-> Caller0(names[c], weights[c],
                                             IF nc = 1 THEN MaxSeqCalls ELSE MaxCalls)]

(* a step makes its batch with one key_fields list *)
InitJobs ==
    /\ InitWith([threads |-> 1, attempts |-> 1, delays |-> <<>>], <<>>)
    /\ LimiterUnused
    /\ TrackerUnused
    /\ HooksUnused
    /\ RangeUnused
    /\ key_fields \in KeyFieldLists
    /\ made = <<>>
    /\ uuids = 0
    /\ deduped = NotCalled

(* a Progress that has not been started, at clock 0 *)
InitProgress ==
    /\ InitWith([threads |-> 1, attempts |-> 1, delays |-> <<>>], <<>>)
    /\ LimiterUnused
    /\ JobsUnused
    /\ TrackerUnused
    /\ HooksUnused
    /\ RangeUnused

(* the arguments of a filter_by_range call: any items, any range pair    *)
(* around the positions of the list, end = -1 and other negatives included *)
InitRange ==
    /\ InitWith([threads |-> 1, attempts |-> 1, delays |-> <<>>], <<>>)
    /\ LimiterUnused
    /\ JobsUnused
    /\ TrackerUnused
    /\ HooksUnused
    /\ \E items \in SeqsUpTo(Items, MaxItems), range_start \in -1..(MaxItems + 1),
          range_end \in -2..(MaxItems + 1) :
            ranged = [NoRange EXCEPT !.items = items, !.start = range_start,
                                     !.end = range_end]

(* HookRegistry.__init__: three empty lists *)
InitHooks ==
    /\ InitWith([threads |-> 1, attempts |-> 1, delays |-> <<>>], <<>>)
    /\ LimiterUnused
    /\ JobsUnused
    /\ TrackerUnused
    /\ HooksUnused
    /\ RangeUnused

(* variant: run() clears the shutdown flag when it starts *)
RunAgain_clears ==
    /\ mainpc \in {"returned", "raised"}
    /\ Len(reruns) < MaxReruns
    /\ \E jl \in JobLists :
        /\ job_list' = jl
        /\ progress' = start(progress, Len(jl))
        /\ pc' = [j \in 1..Len(jl) |-> "queued"]
        /\ attempt' = [j \in 1..Len(jl) |-> 0]
        /\ local' = [j \in 1..Len(jl) |-> 0]
        /\ exc' = [j \in 1..Len(jl) |-> NoError]
        /\ future' = [j \in 1..Len(jl) |-> FuturePending]
        /\ chk' = [j \in 1..Len(jl) |-> "none"]
        /\ calls' = [j \in 1..Len(jl) |-> 0]
        /\ outcome' = [j \in 1..Len(jl) |-> NoError]
        /\ stamps' = [j \in 1..Len(jl) |-> <<>>]
        /\ sleeps' = [j \in 1..Len(jl) |-> <<>>]
        /\ marks' = [j \in 1..Len(jl) |-> <<>>]
        /\ hookruns' = [j \in 1..Len(jl) |-> [before |-> 0, after |-> 0, error |-> 0]]
    /\ mainpc' = "running"
    /\ reruns' = Append(reruns,
                        [shutdown |-> shutdown,
                         counted |-> progress.completed + progress.failed
                                        + progress.skipped])
    /\ shutdown' = FALSE
    /\ UNCHANGED <<cfg, counters>>
    /\ UNCHANGED <<limiter_vars, jobs_vars, tracker_vars, hooks_vars, range_vars>>
(* run() is called again on the runner once the previous call has ended, *)
(* with any job list: lines 53-59 as in RunStart; the flag, the attempt   *)
(* counters and the Progress object are those of the runner, the per-job  *)
(* records are those of the new batch                                     *)
RunAgain ==
    /\ mainpc \in {"returned", "raised"}
    /\ Len(reruns) < MaxReruns
    /\ \E jl \in JobLists :
        /\ job_list' = jl
        /\ progress' = start(progress, Len(jl))
        /\ pc' = [j \in 1..Len(jl) |-> "queued"]
        /\ attempt' = [j \in 1..Len(jl) |-> 0]
        /\ local' = [j \in 1..Len(jl) |-> 0]
        /\ exc' = [j \in 1..Len(jl) |-> NoError]
        /\ future' = [j \in 1..Len(jl) |-> FuturePending]
        /\ chk' = [j \in 1..Len(jl) |-> "none"]
        /\ calls' = [j \in 1..Len(jl) |-> 0]
        /\ outcome' = [j \in 1..Len(jl) |-> NoError]
        /\ stamps' = [j \in 1..Len(jl) |-> <<>>]
        /\ sleeps' = [j \in 1..Len(jl) |-> <<>>]
        /\ marks' = [j \in 1..Len(jl) |-> <<>>]
        /\ hookruns' = [j \in 1..Len(jl) |-> [before |-> 0, after |-> 0, error |-> 0]]
    /\ mainpc' = "running"
    /\ reruns' = Append(reruns,
                        [shutdown |-> shutdown,
                         counted |-> progress.completed + progress.failed
                                        + progress.skipped])
    /\ UNCHANGED <<cfg, shutdown, counters>>
    /\ UNCHANGED <<limiter_vars, jobs_vars, tracker_vars, hooks_vars, range_vars>>

(* all steps of the worker thread that runs job j *)
Worker(j) ==
    \/ Dequeue(j) \/ Skip(j) \/ Begin(j) \/ ExecRead(j) \/ ExecWrite(j)
    \/ RunBefore(j) \/ Process(j) \/ RunAfter(j) \/ ExecPop(j) \/ Sleep(j)
    \/ Complete(j) \/ HandlePop(j) \/ HandleMark(j) \/ HandleHook(j)

(* all steps of the thread that calls run() *)
Driver == RunStart \/ Finish

Next ==
    \/ RunStart
    \/ \E j \in Jobs : Dequeue(j)
    \/ \E j \in Jobs : Skip(j)
    \/ \E j \in Jobs : Begin(j)
    \/ \E j \in Jobs : ExecRead(j)
    \/ \E j \in Jobs : ExecWrite(j)
    \/ \E j \in Jobs : RunBefore(j)
    \/ \E j \in Jobs : Process(j)
    \/ \E j \in Jobs : RunAfter(j)
    \/ \E j \in Jobs : ExecPop(j)
    \/ \E j \in Jobs : Sleep(j)
    \/ \E j \in Jobs : Complete(j)
    \/ \E j \in Jobs : HandlePop(j)
    \/ \E j \in Jobs : HandleMark(j)
    \/ \E j \in Jobs : HandleHook(j)
    \/ Finish
    \/ request_shutdown

Spec == Init /\ [][Next]_vars
(* a runner whose run() is called more than once *)
NextRerun == Next \/ RunAgain
SpecRerun == Init /\ [][NextRerun]_vars

(* all steps of a thread that calls acquire *)
Acquirer(c) ==
    \/ AcquireCall(c) \/ AcquireEnter(c) \/ AcquireTest(c) \/ AcquireDebit(c)
    \/ AcquireWake(c)
NextLimiter ==
    \/ \E c \in Callers : AcquireCall(c)
    \/ \E c \in Callers : AcquireEnter(c)
    \/ \E c \in Callers : AcquireTest(c)
    \/ \E c \in Callers : AcquireDebit(c)
    \/ \E c \in Callers : AcquireWake(c)
    \/ Tick
SpecLimiter == InitLimiter /\ [][NextLimiter]_vars
(* every thread that calls acquire is scheduled fairly; time need not pass *)
FairSpecLimiter ==
    /\ SpecLimiter
    /\ \A c \in 1..MaxCallers : WF_vars(c \in Callers /\ Acquirer(c))
(* and the monotonic clock keeps advancing *)
LiveSpecLimiter ==
    /\ FairSpecLimiter
    /\ WF_vars(Tick)
SpecRetry == InitRetry /\ [][Next]_vars

(* worker threads are scheduled fairly and the caller of run() proceeds *)
FairSpec ==
    /\ Spec
    /\ WF_vars(Driver)
    /\ \A j \in 1..MaxJobs : WF_vars(j \in Jobs /\ Worker(j))

(* ---- properties ---- *)
InCall == {"exec_read", "exec_write", "before", "process", "after", "exec_pop"}
Handling == {"handle_pop", "handle_mark", "handle_hook"}
Bucket(b) == {j \in Jobs : marks[j] = <<b>>}
Processed == progress.completed + progress.failed + progress.skipped

(* C1: once run() has returned, completed + failed + skipped = total, the *)
(* total is the number of jobs passed in, and in_progress = 0.            *)
C1_CountsAddUp ==
    mainpc = "returned" =>
        /\ progress.total = Len(job_list)
        /\ Processed = progress.total
        /\ progress.in_progress = 0
C1_Witness ==
    /\ mainpc = "returned"
    /\ Len(job_list) = MaxJobs
    /\ progress.failed >= 1
    /\ progress.skipped >= 1

(* C2: every job is marked in at most one bucket, a finished job in       *)
(* exactly one, and each Progress counter is the number of jobs marked in *)
(* its bucket - also when an error hook raised during the handling.       *)
C2_ExactlyOneBucket ==
    /\ \A j \in Jobs :
        /\ Len(marks[j]) <= 1
        /\ (pc[j] = "done" \/ mainpc = "returned") => Len(marks[j]) = 1
    /\ progress.completed = Cardinality(Bucket("completed"))
    /\ progress.failed = Cardinality(Bucket("failed"))
    /\ progress.skipped = Cardinality(Bucket("skipped"))
C2_Witness ==
    \E j \in Jobs :
        /\ pc[j] = "done"
        /\ future[j].state = "raised" /\ future[j].hook
        /\ marks[j] = <<"failed">>

(* C3 as stated: with no shutdown, completed is the number of jobs whose  *)
(* process() returned normally within the attempts (run_after is reached  *)
(* exactly when process() returned), failed is the rest, skipped is 0.    *)
ProcessReturned(j) == hookruns[j].after >= 1
C3_ProcessDecidesBucket ==
    (mainpc = "returned" /\ ~shutdown) =>
        /\ progress.completed = Cardinality({j \in Jobs : ProcessReturned(j)})
        /\ progress.failed = progress.total - progress.completed
        /\ progress.skipped = 0
(* C3 amended: with no shutdown, every job is executed, within the        *)
(* allowed attempts, to its own outcome: completed counts the jobs with   *)
(* an attempt in which before-hooks, process() and after-hooks all        *)
(* returned normally, failed counts all other jobs, skipped is 0.         *)
C3_AttemptDecidesBucket ==
    (mainpc = "returned" /\ ~shutdown) =>
        /\ \A j \in Jobs :
            /\ calls[j] >= 1 /\ calls[j] <= cfg.attempts
            /\ outcome[j].type # "None"
            /\ marks[j] = <<"completed">> <=> outcome[j].type = "Returned"
            /\ marks[j] = <<"failed">> <=> outcome[j].type # "Returned"
        /\ progress.completed =
              Cardinality({j \in Jobs : outcome[j].type = "Returned"})
        /\ progress.failed = progress.total - progress.completed
        /\ progress.skipped = 0
C3_Witness ==
    /\ mainpc = "returned" /\ ~shutdown
    /\ cfg.threads = 1
    /\ Len(job_list) = MaxJobs
    /\ outcome[1].type = FatalStepError
    /\ \A j \in 2..MaxJobs : marks[j] = <<"completed">>

(* C4: run() never ends by raising; what a worker re-raises (Fatal, an    *)
(* unexpected error, the exception of an error hook) is in its future and *)
(* is caught at collection; RetryExhausted is never in a future.          *)
C4_RunReturnsNormally ==
    /\ mainpc # "raised"
    /\ \A j \in Jobs :
        /\ future[j].type # JobRetryExceededError
        /\ pc[j] = "done" =>
            /\ outcome[j].type \in {FatalStepError, "IndexError"}
                  => future[j].state = "raised"
            /\ outcome[j].type = JobRetryExceededError
                  => (future[j].state = "returned" \/ future[j].hook)
            /\ outcome[j].type \in {"Returned", "None"}
                  => future[j].state = "returned"
C4_Witness ==
    /\ mainpc = "returned"
    /\ \E j \in Jobs : /\ outcome[j].type = JobRetryExceededError
                       /\ future[j].state = "raised" /\ future[j].hook
    /\ \E j \in Jobs : /\ outcome[j].type = FatalStepError
                       /\ future[j].state = "raised" /\ ~future[j].hook

(* C5: under fair scheduling a started run() eventually returns. *)
C5_RunReturns == (mainpc = "running") ~> (mainpc = "returned")
C5_Witness ==
    /\ mainpc = "returned"
    /\ Len(job_list) = MaxJobs
    /\ cfg.threads = 1
    /\ \E j \in Jobs : Len(sleeps[j]) = cfg.attempts - 1 /\ Len(sleeps[j]) >= 1

(* C6: in every state completed + failed + skipped <= total and           *)
(* in_progress >= 0.                                                      *)
C6_CountersBounded ==
    /\ Processed <= progress.total
    /\ progress.in_progress >= 0
C6_Witness ==
    /\ progress.skipped >= 1
    /\ progress.in_progress = 0
    /\ \E j \in Jobs : pc[j] \in InCall

(* C7: with a non-empty delays sequence, a wrapped call that ends without *)
(* a success and without a Fatal error ends in RetryExhausted, after      *)
(* exactly `attempts` invocations, carrying the failure of invocation     *)
(* number `attempts`; no further invocation is prepared after it.         *)
C7_ExhaustsAfterAttempts ==
    \A j \in Jobs : Len(cfg.delays) > 0 =>
        /\ calls[j] <= cfg.attempts
        /\ pc[j] = "sleep" => attempt[j] < cfg.attempts
        /\ outcome[j].type \notin {"None", "Returned", FatalStepError} =>
            /\ outcome[j].type = JobRetryExceededError
            /\ calls[j] = cfg.attempts
            /\ outcome[j].at = cfg.attempts
            /\ outcome[j].cause \in {RetryableStepError, "Other"}
            /\ pc[j] \in Handling => exc[j].type = JobRetryExceededError
C7_Witness ==
    \E j \in Jobs :
        /\ cfg.attempts = RetryMaxAttempts
        /\ Len(cfg.delays) = 1
        /\ outcome[j].type = JobRetryExceededError
        /\ outcome[j].cause = "Other"
        /\ calls[j] = RetryMaxAttempts

(* C8: a Fatal error of invocation k leaves the wrapper itself, at once:  *)
(* k invocations and k-1 sleeps in all, no sleep after the Fatal error,   *)
(* and RetryExhausted never stands for a Fatal error.                     *)
C8_FatalPropagatesAtOnce ==
    \A j \in Jobs :
        /\ pc[j] = "sleep" => exc[j].type # FatalStepError
        /\ outcome[j].type = JobRetryExceededError
              => outcome[j].cause # FatalStepError
        /\ outcome[j].type = FatalStepError =>
            /\ outcome[j].at = calls[j]
            /\ calls[j] <= cfg.attempts
            /\ Len(sleeps[j]) = calls[j] - 1
            /\ pc[j] \in Handling => exc[j].type = FatalStepError
C8_Witness ==
    \E j \in Jobs :
        /\ outcome[j].type = FatalStepError
        /\ outcome[j].at = 3
        /\ pc[j] = "done"

(* C9: with a non-empty delays list the i-th sleep lasts                  *)
(* delays[min(i-1, len-1)], there is exactly one sleep between two        *)
(* consecutive invocations and none after the last one: attempts - 1      *)
(* sleeps for a permanently failing operation (3, [1,2] gives 1,2;        *)
(* 4, [5,10] gives 5,10,10).                                              *)
ExpectedDelay(i, delays) == IF i <= Len(delays) THEN delays[i] ELSE delays[Len(delays)]
C9_SleepSchedule ==
    \A j \in Jobs : Len(cfg.delays) > 0 =>
        /\ \A i \in 1..Len(sleeps[j]) : sleeps[j][i] = ExpectedDelay(i, cfg.delays)
        /\ calls[j] >= 1 => Len(sleeps[j]) = calls[j] - 1
        /\ outcome[j].type = JobRetryExceededError =>
            /\ Len(sleeps[j]) = cfg.attempts - 1
            /\ (cfg.attempts = 3 /\ cfg.delays = <<1, 2>>) => sleeps[j] = <<1, 2>>
            /\ (cfg.attempts = 4 /\ cfg.delays = <<5, 10>>) => sleeps[j] = <<5, 10, 10>>
C9_Witness ==
    \E j \in Jobs :
        /\ cfg.attempts = 4 /\ cfg.delays = <<5, 10>>
        /\ outcome[j].type = JobRetryExceededError
        /\ sleeps[j] = <<5, 10, 10>>

(* C10: a job whose shutdown check saw the flag set is marked skipped and *)
(* nothing else: no invocation, no hook, no attempt counter, no stamp;    *)
(* when the flag was set before any job's check, all jobs end skipped.    *)
C10_SkippedAfterShutdown ==
    /\ \A j \in Jobs : chk[j] = "set" =>
        /\ pc[j] \in {"skip", "done"}
        /\ calls[j] = 0 /\ stamps[j] = <<>>
        /\ hookruns[j] = [before |-> 0, after |-> 0, error |-> 0]
        /\ marks[j] = IF pc[j] = "done" THEN <<"skipped">> ELSE <<>>
    /\ (shutdown /\ \A j \in Jobs : chk[j] # "clear") =>
        /\ \A k \in Keys : counters[k] = 0
        /\ progress.completed = 0 /\ progress.failed = 0
        /\ mainpc = "returned" => progress.skipped = progress.total
C10_Witness ==
    /\ mainpc = "returned"
    /\ Len(job_list) = MaxJobs
    /\ progress.skipped = MaxJobs

(* C11: a shutdown requested while a job is in progress neither cancels   *)
(* nor shortens it: the step that sets the flag changes nothing of any    *)
(* job, and a job whose shutdown check saw the flag clear is never        *)
(* skipped, runs all the invocations its outcome needs and is marked      *)
(* completed or failed by that outcome alone, whatever the flag is later. *)
Started(j) == chk[j] = "clear"
C11_JobOutlivesShutdown ==
    \A j \in Jobs : Started(j) =>
        /\ pc[j] # "skip"
        /\ marks[j] \in {<<>>, <<"completed">>, <<"failed">>}
        /\ calls[j] >= 1 => Len(sleeps[j]) = calls[j] - 1
        /\ pc[j] = "sleep" => attempt[j] < cfg.attempts
        /\ pc[j] = "done" =>
            /\ marks[j] = <<"completed">> <=> outcome[j].type = "Returned"
            /\ marks[j] = <<"failed">> <=>
                  outcome[j].type \in {FatalStepError, JobRetryExceededError, "IndexError"}
            /\ outcome[j].type = JobRetryExceededError => calls[j] = cfg.attempts
C11_ShutdownIsNotPreemptive ==
    /\ []C11_JobOutlivesShutdown
    /\ [][shutdown' # shutdown =>
            /\ pc' = pc /\ attempt' = attempt /\ exc' = exc /\ calls' = calls
            /\ outcome' = outcome /\ marks' = marks /\ future' = future
            /\ progress' = progress]_vars
C11_Witness ==
    /\ shutdown
    /\ \E j \in Jobs : Started(j) /\ pc[j] = "process" /\ attempt[j] = 2
    /\ \E i \in Jobs : chk[i] = "set" /\ marks[i] = <<"skipped">>

(* C12: the jobs taken by a worker (past the shutdown check) and not yet  *)
(* finished are never more than the configured thread count; a job leaves *)
(* the queue only in a step that starts with a free worker.               *)
C12_PoolBound ==
    /\ [](Cardinality(Running) <= cfg.threads)
    /\ [][\A j \in Jobs : (pc[j] = "queued" /\ pc'[j] # "queued") =>
              Cardinality(Running) < cfg.threads]_vars
C12_Witness ==
    /\ cfg.threads = 1
    /\ Len(job_list) = MaxJobs
    /\ pc[1] = "process"
    /\ \A j \in 2..MaxJobs : pc[j] = "queued"

NextJobs ==
    \/ \E payload \in Payloads : MakeJob(payload)
    \/ Deduplicate
SpecJobs == InitJobs /\ [][NextJobs]_vars

NextProgress ==
    \/ \E total \in 0..MaxTotal : ProgressStart(total)
    \/ ProgressBegin
    \/ ProgressCompleted
    \/ ProgressFailed
    \/ ProgressSkipped
    \/ Snapshot
    \/ Tick
SpecProgress == InitProgress /\ [][NextProgress]_vars

NextHooks ==
    \/ \E kind \in HookKinds, cb \in Callbacks : Register(kind, cb)
    \/ \E kind \in HookKinds : RunHooks(kind)
    \/ Invoke
    \/ HooksReturn
SpecHooks == InitHooks /\ [][NextHooks]_vars

NextRange == FilterByRange
SpecRange == InitRange /\ [][NextRange]_vars

(* ---- properties of the rate limiter ---- *)
InsideLock(b) == {c \in Callers : acq[c].bucket = b /\ acq[c].pc \in {"test", "debit"}}
CallersOf(b) == {c \in Callers : acq[c].name = b}
RECURSIVE ReturnedWeight(_)
ReturnedWeight(S) ==
    IF S = {} THEN 0
    ELSE LET c == CHOOSE x \in S : TRUE
         IN  acq[c].returned * acq[c].weight + ReturnedWeight(S \ {c})

(* C13: for every bucket, in every state, 0 <= tokens <= capacity; at     *)
(* most one caller is between the test and the debit of a bucket, and it  *)
(* is the holder of the bucket's lock, so no two callers debit the tokens *)
(* that one test saw.                                                     *)
C13_TokensWithinCapacity ==
    \A b \in Configured :
        /\ 0 <= buckets[b].tokens
        /\ buckets[b].tokens <= buckets[b].capacity
        /\ Cardinality(InsideLock(b)) <= 1
        /\ \A c \in InsideLock(b) : buckets[b].lock = c
        /\ \A c \in InsideLock(b) : acq[c].pc = "debit" => buckets[b].tokens >= acq[c].weight
C13_Witness ==
    \E b \in Configured : \E c, d \in CallersOf(b) :
        /\ c # d
        /\ acq[c].pc = "debit" /\ acq[d].pc = "lock"
        /\ buckets[b].tokens = acq[c].weight
        /\ acq[d].weight = acq[c].weight
        /\ acq[d].returned = 1

(* C14: the weight granted by the calls that have returned never exceeds  *)
(* capacity + refill_rate * (time since construction), for any callers;   *)
(* and n sequential acquires of a whole bucket (weight = capacity, as     *)
(* weight 1 on burst 1) have not all returned before (n - 1) * capacity / *)
(* refill_rate after the first call was made: 4 seconds for 5 calls at 60 *)
(* calls per minute.                                                       *)
C14_GrantedWithinRefill ==
    /\ \A b \in Configured :
        /\ buckets[b].granted = ReturnedWeight(CallersOf(b))
        /\ buckets[b].granted <= buckets[b].capacity + buckets[b].refill_rate * clock
    /\ \A c \in Callers :
        (Callers = {c} /\ acq[c].name \in Configured /\ acq[c].returned >= 1
            /\ acq[c].weight = buckets[acq[c].name].capacity) =>
        (clock - acq[c].t_call) * buckets[acq[c].name].refill_rate
            >= (acq[c].returned - 1) * buckets[acq[c].name].capacity
C14_Witness ==
    \E c \in Callers :
        /\ Callers = {c} /\ acq[c].name \in Configured
        /\ acq[c].weight = buckets[acq[c].name].capacity
        /\ acq[c].returned = MaxSeqCalls
        /\ buckets[acq[c].name].capacity = buckets[acq[c].name].refill_rate
        /\ clock - acq[c].t_call = MaxSeqCalls - 1

(* C15: a call of acquire for a name without a bucket returns in the same *)
(* step, for every weight: the caller never waits or sleeps, no bucket    *)
(* changes and no time passes.                                            *)
C15_UnknownNameIsNoOp ==
    /\ [](\A c \in Callers : acq[c].name \notin Configured =>
             acq[c].pc = "idle" /\ acq[c].wake = 0 /\ acq[c].bucket = None)
    /\ [][\A c \in Callers : (acq[c].name \notin Configured /\ acq'[c] # acq[c]) =>
             /\ acq'[c].returned = acq[c].returned + 1
             /\ acq'[c].pc = "idle"
             /\ buckets' = buckets
             /\ clock' = clock]_vars
C15_Witness ==
    /\ clock = 0
    /\ \E c, d \in Callers :
        /\ acq[c].name \notin Configured /\ acq[c].weight = MaxWeight
        /\ acq[c].returned = MaxCalls
        /\ acq[d].name \in Configured /\ acq[d].pc = "asleep"

(* C16: a step of a caller of bucket A changes no other bucket; a caller  *)
(* waiting for a lock waits for the lock of its own bucket only; and a    *)
(* caller whose bucket holds enough tokens and is used by no one else     *)
(* returns, whatever the callers of the other buckets do or wait for.     *)
AloneOn(c) == \A d \in Callers : d # c => acq[d].name # acq[c].name
C16_BucketsIndependent ==
    /\ [](\A c \in Callers : (acq[c].pc = "lock" /\ buckets[acq[c].bucket].lock = 0)
             => ENABLED AcquireEnter(c))
    /\ [][\A c \in Callers : acq'[c] # acq[c] =>
             \A b \in Configured : b # acq'[c].bucket => buckets'[b] = buckets[b]]_vars
    /\ \A c \in 1..MaxCallers :
          (/\ c \in Callers /\ AloneOn(c) /\ acq[c].pc = "lock"
           /\ buckets[acq[c].bucket].tokens >= acq[c].weight)
          ~> (c \in Callers /\ acq[c].pc = "idle")
C16_Witness ==
    \E c, d \in Callers :
        /\ acq[c].name \in Configured /\ acq[d].name \in Configured
        /\ acq[c].name # acq[d].name
        /\ acq[c].pc = "asleep" /\ buckets[acq[c].name].tokens = 0
        /\ acq[d].pc = "idle" /\ acq[d].returned = 1
        /\ buckets[acq[d].name].tokens
              = buckets[acq[d].name].capacity - acq[d].weight
        /\ buckets[acq[d].name].updated_at = 0

Out == deduped.out
(* places of the key k in the batch *)
Occurrences(k) == {i \in 1..Len(made) : made[i].entity_key = k}
LastOccurrence(k) == CHOOSE i \in Occurrences(k) : \A h \in Occurrences(k) : h <= i
FirstOccurrence(k) == CHOOSE i \in Occurrences(k) : \A h \in Occurrences(k) : i <= h

(* C18: the output of deduplicate_jobs holds at most one job per          *)
(* entity_key, and the job it holds for a key is the last job of the      *)
(* input with that key.                                                   *)
C18_LastJobPerKey ==
    deduped.called =>
        /\ \A i, j \in 1..Len(Out) : Out[i].entity_key = Out[j].entity_key => i = j
        /\ \A i \in 1..Len(Out) :
            /\ Occurrences(Out[i].entity_key) # {}
            /\ Out[i] = made[LastOccurrence(Out[i].entity_key)]
C18_Witness ==
    /\ deduped.called
    /\ Len(made) = MaxMade /\ Len(Out) = MaxMade - 1
    /\ made[1].entity_key = made[MaxMade].entity_key
    /\ made[1].payload # made[MaxMade].payload
    /\ Out[1] = made[MaxMade]

(* C19 as stated: the surviving jobs stand in the order of the last       *)
(* occurrences of their keys in the input.                                *)
C19_OrderOfLastOccurrences ==
    deduped.called =>
        \A i, j \in 1..Len(Out) :
            LastOccurrence(Out[i].entity_key) < LastOccurrence(Out[j].entity_key) => i < j
(* C19 amended: the surviving jobs stand in the order of the first        *)
(* occurrences of their keys in the input (each key keeps the place of    *)
(* its first job and carries its last job).                               *)
C19_OrderOfFirstOccurrences ==
    deduped.called =>
        \A i, j \in 1..Len(Out) :
            FirstOccurrence(Out[i].entity_key) < FirstOccurrence(Out[j].entity_key) => i < j
C19_Witness ==
    /\ deduped.called
    /\ Len(made) = 3 /\ Len(Out) = 2
    /\ made[1].entity_key = made[3].entity_key
    /\ Out[1] = made[3] /\ Out[2] = made[2]

(* C20: a job made from a payload that holds some key field has the key   *)
(* built from the strings of the present key fields in key_fields order   *)
(* with ':' between them, the same key for the same payload; a job made   *)
(* from a payload that holds no key field has a key no other job has, and *)
(* is in the output of deduplicate_jobs.                                  *)
Present(payload) == {i \in 1..Len(key_fields) : payload[key_fields[i]] # Absent}
RECURSIVE KeyUpTo(_, _)
KeyUpTo(payload, n) ==
    IF n = 0 THEN <<>>
    ELSE IF n \notin Present(payload) THEN KeyUpTo(payload, n - 1)
    ELSE IF \E h \in Present(payload) : h < n
    THEN KeyUpTo(payload, n - 1) \o <<":">> \o payload[key_fields[n]].chars
    ELSE payload[key_fields[n]].chars
C20_KeyFromPresentFields ==
    /\ \A i \in 1..Len(made) :
        IF Present(made[i].payload) # {}
        THEN /\ made[i].entity_key = KeyUpTo(made[i].payload, Len(key_fields))
             /\ \A j \in 1..Len(made) : made[j].payload = made[i].payload
                                          => made[j].entity_key = made[i].entity_key
        ELSE /\ \A j \in 1..Len(made) : j # i => made[j].entity_key # made[i].entity_key
             /\ deduped.called => \E h \in 1..Len(Out) : Out[h] = made[i]
    /\ uuids = Cardinality({i \in 1..Len(made) : Present(made[i].payload) = {}})
C20_Witness ==
    /\ deduped.called
    /\ key_fields = <<"g", "f">>
    /\ Len(made) = 3 /\ Len(Out) = 3
    /\ made[1].payload = made[2].payload
    /\ Present(made[1].payload) = {}
    /\ made[3].entity_key = <<"x", ":", "y", ":", "1">>

(* ---- properties of Progress.snapshot ---- *)
SnapProcessed == snap.completed + snap.failed + snap.skipped
(* eta_sec = n * elapsed_sec / processed, as fractions *)
EtaIs(n) == snap.eta_sec.num * SnapProcessed = n * snap.elapsed_sec * snap.eta_sec.den

(* C21 as stated: a snapshot taken while completed = 0 has no eta,        *)
(* whatever failed and skipped are; an eta is defined only with           *)
(* completed >= 1 and is then (total - processed) * elapsed / processed.  *)
C21_EtaNeedsCompleted ==
    snap.taken =>
        /\ snap.completed = 0 => ~snap.eta_sec.defined
        /\ snap.eta_sec.defined =>
            /\ snap.completed >= 1
            /\ EtaIs(snap.total - SnapProcessed)
(* C21 amended: a snapshot has no eta exactly when no job has been        *)
(* processed (completed + failed + skipped = 0) or no time has elapsed    *)
(* since start(); otherwise eta is max(0, total - processed) * elapsed /  *)
(* processed.                                                             *)
C21_EtaNeedsProcessed ==
    snap.taken =>
        /\ snap.eta_sec.defined <=> (SnapProcessed >= 1 /\ snap.elapsed_sec > 0)
        /\ snap.eta_sec.defined => EtaIs(Max(0, snap.total - SnapProcessed))
        /\ ~snap.eta_sec.defined => snap.eta_sec = NoEta
C21_Witness ==
    /\ snap.taken
    /\ snap.total = MaxTotal
    /\ snap.completed = 0 /\ snap.failed = 1 /\ snap.skipped = 1
    /\ snap.elapsed_sec = 2
    /\ snap.eta_sec = [defined |-> TRUE, num |-> 2, den |-> 2]

(* ---- properties of the hook registry ---- *)
(* C22: a run_before / run_after / run_error call invokes the callbacks   *)
(* of its list in registration order, each once, and stops at the first   *)
(* one that raises: the call raises then, and returns only after every    *)
(* callback of the list has been invoked and has returned.                *)
C22_HooksInOrderUntilRaise ==
    /\ [](hookcall.kind \in HookKinds =>
            /\ Len(hookcall.log) <= Len(registry[hookcall.kind])
            /\ hookcall.log = SubSeq(registry[hookcall.kind], 1, Len(hookcall.log))
            /\ \A i \in 1..Len(hookcall.log) - 1 : ~hookcall.log[i].raises
            /\ hookcall.result = "raised" <=>
                    (hookcall.log # <<>> /\ hookcall.log[Len(hookcall.log)].raises)
            /\ hookcall.result = "returned" =>
                    \A i \in 1..Len(hookcall.log) : ~hookcall.log[i].raises)
    /\ [][hookcall.result = "running" /\ hookcall'.result = "returned"
            => hookcall'.log = registry[hookcall.kind]]_vars
C22_Witness ==
    /\ hookcall.kind = "error"
    /\ hookcall.result = "raised"
    /\ Len(hookcall.log) = 2
    /\ Len(registry["error"]) = 3

(* ---- properties of the job outcomes ---- *)
(* the failures counted so far are those of the jobs marked failed *)
FailureCounted(j) ==
    /\ marks[j] = <<"failed">>
    /\ progress.failed = Cardinality({i \in Jobs : marks[i] = <<"failed">>})

(* C23: the error hooks are run once for every job that ends failed, with *)
(* the error that ended it and after mark_failed has counted the failure, *)
(* and never for a job that ends completed or skipped.                    *)
C23_ErrorHooksOncePerFailure ==
    /\ [](\A j \in Jobs :
            /\ hookruns[j].error <= 1
            /\ pc[j] = "done" =>
                 hookruns[j].error = IF marks[j] = <<"failed">> THEN 1 ELSE 0)
    /\ [][\A j \in Jobs : hookruns'[j].error # hookruns[j].error =>
            /\ FailureCounted(j)
            /\ exc[j] # NoError
            /\ outcome[j] = [exc[j] EXCEPT !.src = "call"]]_vars
C23_Witness ==
    \E i, j \in Jobs :
        /\ pc[i] = "done" /\ pc[j] = "done"
        /\ marks[i] = <<"failed">> /\ outcome[i].type = JobRetryExceededError
        /\ hookruns[i].error = 1
        /\ marks[j] = <<"completed">> /\ hookruns[j].error = 0

(* the state of a job: Pending until begin_job, InProgress until a mark_* *)
JobState(j) ==
    IF marks[j] = <<>>
    THEN IF calls[j] = 0 THEN "Pending" ELSE "InProgress"
    ELSE IF marks[j][Len(marks[j])] = "completed" THEN "Completed"
    ELSE IF marks[j][Len(marks[j])] = "skipped" THEN "SkippedShutdown"
    ELSE IF Handler(outcome[j]) = "fatal" THEN "FailedFatal"
    ELSE IF Handler(outcome[j]) = "exhausted" THEN "FailedExhausted"
    ELSE "FailedUnexpected"
JobTransitions ==
    {<<"Pending", "InProgress">>, <<"Pending", "SkippedShutdown">>,
     <<"InProgress", "Completed">>, <<"InProgress", "FailedFatal">>,
     <<"InProgress", "FailedExhausted">>, <<"InProgress", "FailedUnexpected">>}

(* C24: the state of a job changes only along Pending -> InProgress ->    *)
(* {Completed, FailedFatal, FailedExhausted, FailedUnexpected} or Pending *)
(* -> SkippedShutdown; a terminal state is never left.                    *)
C24_JobStateMachine ==
    [][\A j \in Jobs : JobState(j)' # JobState(j) =>
            <<JobState(j), JobState(j)'>> \in JobTransitions]_vars
C24_Witness ==
    \E i, j \in Jobs :
        /\ pc[i] = "done" /\ pc[j] = "done"
        /\ JobState(i) = "FailedUnexpected"
        /\ JobState(j) = "SkippedShutdown"

(* ---- properties of the retried execution ---- *)
(* C25 as stated: for every attempts >= 1 and every delays, the empty one *)
(* included, a call of the wrapped operation ends by a normal return, by  *)
(* the operation's Fatal error or by RetryExhausted once the attempts ran *)
(* out; no other error leaves the wrapper.                                *)
C25_WrapperEndsThreeWays ==
    \A j \in Jobs :
        /\ outcome[j].type \in {NoError.type, Returned.type, FatalStepError,
                                JobRetryExceededError}
        /\ outcome[j].type = JobRetryExceededError => calls[j] = cfg.attempts

(* C26 as stated: an exception of a before-hook or an after-hook reaches  *)
(* _process_job as an unexpected error: the job is handled by the         *)
(* `except Exception` clause, not as RetryExhausted (a hook that raises   *)
(* FatalStepError itself is left aside).                                  *)
C26_HookErrorIsUnexpected ==
    \A j \in Jobs :
        (pc[j] \in Handling /\ exc[j].src \in {"before", "after"}
                            /\ exc[j].type # FatalStepError)
            => Handler(exc[j]) = "unexpected"

(* C27 as stated: the before-hooks are run once per started job, before   *)
(* its first process() invocation, and not again on a retry attempt.      *)
C27_BeforeHooksOncePerJob ==
    \A j \in Jobs :
        /\ hookruns[j].before <= 1
        /\ pc[j] \in {"process", "after"} => hookruns[j].before = 1

(* no error was raised in the current call of the wrapped function *)
NoErrorInLastAttempt(j) == exc[j] = NoError \/ exc[j].at < attempt[j]

(* C28: per started job and attempt the order is begin_job, stamp,        *)
(* before-hooks, process(); after-hooks run only once process() has       *)
(* returned, mark_completed only once the after-hooks have returned, and  *)
(* no job is marked completed whose last attempt raised.                  *)
C28_OrderOfJobEvents ==
    /\ [](\A j \in Jobs :
            /\ Len(stamps[j]) <= calls[j]
            /\ hookruns[j].before <= Len(stamps[j])
            /\ hookruns[j].after <= hookruns[j].before
            /\ calls[j] >= 1 => JobState(j) # "Pending"
            /\ pc[j] = "before" =>
                 Len(stamps[j]) = calls[j] /\ hookruns[j].before = calls[j] - 1
            /\ pc[j] = "process" => hookruns[j].before = calls[j]
            /\ pc[j] \in {"exec_pop", "complete"} =>
                 hookruns[j].after >= 1 /\ NoErrorInLastAttempt(j)
            /\ marks[j] = <<"completed">> =>
                 outcome[j] = Returned /\ hookruns[j].after >= 1)
    /\ [][\A j \in Jobs :
            /\ hookruns'[j].before # hookruns[j].before => pc[j] = "before"
            /\ hookruns'[j].after # hookruns[j].after => pc[j] = "after"
            /\ (pc'[j] = "after" /\ pc[j] # "after") =>
                 pc[j] = "process" /\ exc'[j] = exc[j] /\ NoErrorInLastAttempt(j)
            /\ (pc'[j] = "exec_pop" /\ pc[j] # "exec_pop") =>
                 pc[j] = "after" /\ exc'[j] = exc[j]
            /\ marks'[j] # marks[j] /\ marks'[j] = <<"completed">> =>
                 pc[j] = "complete"]_vars
C28_Witness ==
    \E j \in Jobs :
        /\ marks[j] = <<"completed">>
        /\ calls[j] = 2
        /\ stamps[j] = <<1, 2>>
        /\ hookruns[j].before = 2 /\ hookruns[j].after = 1

(* C29 as stated: the k-th execution attempt of a job is stamped k, also  *)
(* when two jobs of the batch have the same job_id and run concurrently.  *)
C29_AttemptStampedInOrder ==
    \A j \in Jobs : \A k \in 1..Len(stamps[j]) : stamps[j][k] = k

(* the jobs with the job_id of j that are inside _safe_process *)
SharingCounter(j) ==
    {i \in Jobs : job_list[i] = job_list[j] /\ pc[i] \in InCall \cup {"sleep", "handle_pop"}}

(* C30: a job that reached a terminal state has left no attempt counter   *)
(* (unless another job with its job_id is being executed), and the map is *)
(* empty when run() returns, so that a later run reads no entry and       *)
(* stamps attempt 1.                                                      *)
C30_CountersRemoved ==
    /\ mainpc \in {"returned", "raised"} => \A k \in Keys : counters[k] = 0
    /\ \A j \in Jobs :
        (marks[j] # <<>> /\ SharingCounter(j) = {}) => counters[job_list[j]] = 0
C30_Witness ==
    /\ mainpc = "returned"
    /\ \E i, j \in Jobs :
        /\ job_list[i] = job_list[j] /\ i # j
        /\ stamps[i] = <<1, 2>>
        /\ outcome[i].type = JobRetryExceededError
        /\ outcome[j] = Returned

(* ---- properties of the in-flight counter and of repeated execution ---- *)
(* the jobs that called begin_job and have not been marked *)
InFlight == {j \in Jobs : calls[j] >= 1 /\ marks[j] = <<>>}

(* C31 as stated: during run() in_progress is the number of jobs that     *)
(* have called begin_job and are not yet marked completed or failed, also *)
(* when jobs are skipped after a shutdown request.                        *)
C31_InProgressCountsInFlight ==
    mainpc = "running" => progress.in_progress = Cardinality(InFlight)

(* C32 as stated: once an invocation of process(job) has returned         *)
(* normally, process() is not invoked again for that job in the run.      *)
C32_NoProcessAfterSuccess ==
    \A j \in Jobs : pc[j] = "process" => ~ProcessReturned(j)

(* ---- liveness of the rate limiter ---- *)
(* the sole caller c is inside acquire() on a configured bucket with a    *)
(* weight within the capacity                                             *)
SoleCallerInside(c) ==
    /\ Callers = {c}
    /\ acq[c].name \in Configured
    /\ acq[c].weight <= buckets[acq[c].name].capacity
    /\ acq[c].pc # "idle"

(* C33: a sole caller inside acquire() with 0 < weight <= capacity on a   *)
(* configured bucket (refill_rate > 0) either returns or goes to sleep,   *)
(* and once asleep it returns after that sleep as time advances (a sleep  *)
(* that ends within the horizon of the clock); the step that returns      *)
(* debits exactly weight tokens from the bucket, which held at least      *)
(* that many.                                                             *)
C33_SoleCallerReturns ==
    /\ \A c \in 1..MaxCallers :
          (SoleCallerInside(c) /\ acq[c].pc # "asleep")
          ~> (Callers = {c} /\ acq[c].pc \in {"idle", "asleep"})
    /\ \A c \in 1..MaxCallers :
          (SoleCallerInside(c) /\ acq[c].pc = "asleep" /\ acq[c].wake <= MaxSeqTime)
          ~> (Callers = {c} /\ acq[c].pc = "idle")
    /\ [][\A c \in Callers :
            (Callers = {c} /\ acq[c].name \in Configured
                           /\ acq'[c].returned = acq[c].returned + 1) =>
                /\ buckets[acq[c].bucket].tokens >= acq[c].weight
                /\ buckets'[acq[c].bucket].tokens
                      = buckets[acq[c].bucket].tokens - acq[c].weight]_vars
C33_Witness ==
    /\ Callers = {1}
    /\ acq[1].name \in Configured
    /\ acq[1].weight = buckets[acq[1].name].capacity
    /\ acq[1].pc = "idle"
    /\ acq[1].returned = 3
    /\ buckets[acq[1].name].granted = 3 * acq[1].weight
    /\ buckets[acq[1].name].tokens = 0

(* ---- properties of a runner that is run again ---- *)
(* the shutdown flag was set when the current run() began *)
RerunUnderShutdown == reruns # <<>> /\ reruns[Len(reruns)].shutdown

(* C34: the shutdown flag, once set, stays set: no step clears it, a      *)
(* further request_shutdown() changes nothing, and a run() that begins    *)
(* with the flag set skips every job of its batch.                        *)
C34_ShutdownIsMonotone ==
    /\ [][shutdown => shutdown']_vars
    /\ [][(shutdown /\ request_shutdown) => UNCHANGED vars]_vars
    /\ [](RerunUnderShutdown =>
            /\ shutdown
            /\ \A j \in Jobs :
                /\ chk[j] # "clear" /\ calls[j] = 0
                /\ marks[j] \in {<<>>, <<"skipped">>}
            /\ progress.completed = 0 /\ progress.failed = 0
            /\ mainpc = "returned" => progress.skipped = Len(job_list))
C34_Witness ==
    /\ RerunUnderShutdown
    /\ reruns[1].counted = MaxJobs
    /\ mainpc = "returned"
    /\ Len(job_list) = MaxJobs
    /\ progress.skipped = MaxJobs

(* the job_id of j is that of no other job of the batch *)
UniqueId(j) == \A i \in Jobs : i # j => job_list[i] # job_list[j]

(* C35: start(total) zeroes completed, failed, skipped and in_progress    *)
(* and sets total, so a later run() without shutdown returns counts of    *)
(* its own batch only, as a fresh runner would: total is the batch size,  *)
(* each counter is the number of jobs of the batch marked so, and the     *)
(* attempts of a job are numbered from 1.                                 *)
C35_SecondRunCountsOwnBatch ==
    /\ [][mainpc # "running" /\ mainpc' = "running" =>
            progress' = [total |-> Len(job_list'), completed |-> 0, failed |-> 0,
                         skipped |-> 0, in_progress |-> 0,
                         start_ts |-> progress'.start_ts]]_vars
    /\ []((reruns # <<>> /\ ~shutdown) =>
            /\ progress.total = Len(job_list)
            /\ progress.completed = Cardinality(Bucket("completed"))
            /\ progress.failed = Cardinality(Bucket("failed"))
            /\ progress.skipped = 0
            /\ \A j \in Jobs : UniqueId(j) =>
                    \A k \in 1..Len(stamps[j]) : stamps[j][k] = k
            /\ mainpc = "returned" =>
                    Processed = Len(job_list) /\ progress.in_progress = 0)
C35_Witness ==
    /\ reruns # <<>> /\ ~shutdown
    /\ reruns[1].counted = MaxJobs
    /\ mainpc = "returned"
    /\ Len(job_list) = 1
    /\ progress.completed = 0 /\ progress.failed = 1

(* ---- properties of filter_by_range ---- *)
(* the last position the range pair admits: end = -1 is the last one *)
LastPosition ==
    IF ranged.end = -1 THEN Len(ranged.items) ELSE Min(ranged.end, Len(ranged.items))
Admitted == {p \in 1..Len(ranged.items) : Max(1, ranged.start) <= p /\ p <= LastPosition}

(* C38: filter_by_range returns, in their order, exactly the items at the *)
(* positions p with max(1, start) <= p <= end, end = -1 standing for the  *)
(* last position; nothing when start is past the list or past end.        *)
C38_RangeIsPositions ==
    ranged.called =>
        /\ Len(ranged.out) = Cardinality(Admitted)
        /\ \A i \in 1..Len(ranged.out) :
              ranged.out[i] = ranged.items[Max(1, ranged.start) + i - 1]
        /\ (ranged.start > Len(ranged.items)
              \/ (ranged.end # -1 /\ ranged.start > ranged.end)) => ranged.out = <<>>
C38_Witness ==
    /\ ranged.called
    /\ ranged.items = <<"a", "b", "a">>
    /\ ranged.start = 2 /\ ranged.end = -1
    /\ ranged.out = <<"b", "a">>

(* ---- further properties of jobs ---- *)
KeysOf(jobs) == {jobs[i].entity_key : i \in 1..Len(jobs)}

(* C36: the output of deduplicate_jobs consists of jobs of the input,     *)
(* holds exactly the keys of the input, and is a fixed point: applying    *)
(* deduplicate_jobs to it returns the same list in the same order.        *)
C36_DedupKeepsKeysAndIsIdempotent ==
    deduped.called =>
        /\ \A i \in 1..Len(Out) : \E j \in 1..Len(made) : Out[i] = made[j]
        /\ KeysOf(Out) = KeysOf(made)
        /\ deduplicate_jobs(Out) = Out
C36_Witness ==
    /\ deduped.called
    /\ Len(made) = 3 /\ Len(Out) = 2
    /\ made[2].entity_key = made[3].entity_key
    /\ Out = <<made[1], made[3]>>

(* the string of a key field's value holds no ':' *)
NoColon(v) == \A n \in 1..Len(str(v)) : str(v)[n] # ":"
(* the payloads hold the same key fields, all with strings free of ':' *)
Comparable(p, q) ==
    /\ Present(p) = Present(q)
    /\ \A n \in Present(p) : NoColon(p[key_fields[n]]) /\ NoColon(q[key_fields[n]])

(* C37 as stated: two jobs made with the same step and key_fields have    *)
(* the same key only if their payloads agree on every key field (the same *)
(* fields present, with equal values).                                    *)
C37_EqualKeyOnlyIfEqualFields ==
    \A i, j \in 1..Len(made) :
        made[i].entity_key = made[j].entity_key =>
            \A n \in 1..Len(key_fields) :
                made[i].payload[key_fields[n]] = made[j].payload[key_fields[n]]
(* C37 amended: two jobs whose payloads hold the same key fields, with    *)
(* values whose strings contain no ':', have the same key only if the     *)
(* strings of their values are equal for every key field; such payloads   *)
(* with a different string on a key field stay two jobs after             *)
(* deduplicate_jobs.                                                      *)
C37_EqualKeyOnlyIfEqualStrings ==
    \A i, j \in 1..Len(made) :
        (Comparable(made[i].payload, made[j].payload)
            /\ Present(made[i].payload) # {}
            /\ \E n \in Present(made[i].payload) :
                  str(made[i].payload[key_fields[n]]) # str(made[j].payload[key_fields[n]]))
        => /\ made[i].entity_key # made[j].entity_key
           /\ deduped.called => \E h, k \in 1..Len(Out) :
                 /\ h # k
                 /\ Out[h].entity_key = made[i].entity_key
                 /\ Out[k].entity_key = made[j].entity_key
C37_Witness ==
    /\ deduped.called
    /\ key_fields = <<"f", "g">>
    /\ Len(made) = 3 /\ Len(Out) = 2
    /\ made[1].entity_key = <<"1", ":", "2">>
    /\ made[2].entity_key = <<"2", ":", "1">>
    /\ made[3].entity_key = made[1].entity_key
    /\ made[3].payload # made[1].payload

====
